---- MODULE Spec2Model ----
(***************************************************************************)
(* A model of the ustr string cache: the downward bump arena               *)
(* (bumpalloc.rs), the open-addressed shard (stringcache.rs), the array of *)
(* mutex-protected shards with its routing, the handle accessors and the   *)
(* public surface (lib.rs).                                                *)
(*                                                                         *)
(* Memory is modelled at the granularity the code accesses it: the heap is *)
(* a partial map from addresses to cells.  An entry whose header is at     *)
(* address p has the u64 hash in the cell at p, the usize len in the cell  *)
(* at p + 8, its bytes in the cells p + 16 .. p + 15 + len and the NUL in  *)
(* the cell p + 16 + len.  Pointers are absolute addresses.                *)
(*                                                                         *)
(* The sizes of the reference build are scaled down so that table growth   *)
(* and arena retirement happen with a handful of strings: BIN_SHIFT,       *)
(* CapacityShift, AllocShift and HashBits are the scaled quantities.       *)
(***************************************************************************)
EXTENDS Integers, Sequences, FiniteSets, TLC

(***************************************************************************)
(* Sizes.                                                                  *)
(***************************************************************************)
\* stringcache.rs:50 has BIN_SHIFT = 6 (64 shards); scaled.
BIN_SHIFT == 1
NUM_BINS == 2 ^ BIN_SHIFT
\* width of the hash / of usize in bits: 64 in the source; scaled.
HashBits == 8
TOP_SHIFT == HashBits - BIN_SHIFT
\* stringcache.rs:46 has INITIAL_CAPACITY = 1 << 20; the shift is scaled.
CapacityShift == 2
INITIAL_CAPACITY == 2 ^ CapacityShift
\* stringcache.rs:48 has INITIAL_ALLOC = 4 << 20; the shift is scaled.
AllocShift == 4
INITIAL_ALLOC == 4 * (2 ^ AllocShift)
\* size_of::<StringCacheEntry>() : u64 hash + usize len
SizeOfEntry == 16
\* align_of::<StringCacheEntry>()
AlignOfEntry == 8
\* offset of the len field inside the header (size_of::<u64>())
SizeOfHash == 8
\* the null pointer
NullPtr == 0

Bins == 0 .. (NUM_BINS - 1)

\* the threads of the concurrent specification
NumThreads == 2
Threads == 1 .. NumThreads

Max(a, b) == IF a >= b THEN a ELSE b

(***************************************************************************)
(* The inputs: four strings (sequences of bytes).  StrA and StrB have the  *)
(* same length; StrL does not fit the initial arena of a shard.            *)
(***************************************************************************)
LongLen == (INITIAL_ALLOC \div NUM_BINS) - SizeOfEntry
StrE == << >>
StrA == << 97 >>
StrB == << 98 >>
StrL == [i \in 1 .. LongLen |-> 120]
Strings == {StrE, StrA, StrB, StrL}

\* a hash with the given routing (top) bits and the given low bits
MkHash(top, low) == top * (2 ^ TOP_SHIFT) + low
\* The hashes a run may assign to the inputs.  StrB may collide with StrA on
\* all 64 bits, share its shard and its first slot in the initial table only,
\* share its shard only, or live in the other shard; StrE and StrL live in
\* the first or in the second shard.
HashChoices(s) ==
  IF s = StrA THEN {MkHash(0, 0)}
  ELSE IF s = StrB THEN {MkHash(0, 0), MkHash(0, 1), MkHash(0, 2), MkHash(1, 0)}
  ELSE IF s = StrE THEN {MkHash(0, 0), MkHash(0, 1), MkHash(1, 0)}
  ELSE {MkHash(0, 0), MkHash(1, 0)}
HashFns == {f \in [Strings -> UNION {HashChoices(s) : s \in Strings}] :
              \A s \in Strings : f[s] \in HashChoices(s)}

(***************************************************************************)
(* Integer helpers, computed as the code computes them.                    *)
(***************************************************************************)
\* n & !(align - 1), align a power of two
RoundDown(n, align) == n - (n % align)
\* x & mask, mask = 2^k - 1
AndMask(x, mask) == x % (mask + 1)

round_up_to(n, align) == RoundDown(n + align - 1, align)

\* whichbin shifting by one bit less than TOP_SHIFT
whichbin_short_shift(hash) == (hash \div (2 ^ (TOP_SHIFT - 1))) % NUM_BINS

\* whichbin routing by the low bits of the hash
whichbin_low_bits(hash) == hash % NUM_BINS

whichbin(hash) == (hash \div (2 ^ TOP_SHIFT)) % NUM_BINS

(***************************************************************************)
(* The heap.                                                               *)
(***************************************************************************)
\* what a read of a cell that was never written (or was released) finds
Uninit == 0 - 1
Load(m, a) == IF a \in DOMAIN m THEN m[a] ELSE Uninit
\* the cells of m outside [lo, hi) (deallocation of a region)
Release(m, lo, hi) == [a \in {x \in DOMAIN m : x < lo \/ x >= hi} |-> m[a]]
\* m overwritten by the cells of w
Store(m, w) == [a \in DOMAIN m \cup DOMAIN w |-> IF a \in DOMAIN w THEN w[a] ELSE m[a]]

\* System.alloc: the lowest suitably aligned non-null address at which
\* `size` bytes overlap no live region (first fit).
SystemAlloc(live, size, align) ==
  LET cands == {align} \cup {round_up_to(r.start + r.size, align) : r \in live}
      fits(a) == \A r \in live : a + size <= r.start \/ a >= r.start + r.size
  IN  CHOOSE a \in cands : fits(a) /\ \A b \in cands : fits(b) => a <= b

(***************************************************************************)
(* LeakyBumpAlloc (bumpalloc.rs).                                          *)
(***************************************************************************)
LeakyBumpAlloc_new(live, cap, alignment) ==
  LET start == SystemAlloc(live, cap, alignment)
  IN  [start |-> start, end |-> start + cap, ptr |-> start + cap,
       size |-> cap, align |-> alignment]

allocated(a) == a.end - a.ptr
capacity(a) == a.size

\* allocate returning the new address without moving the cursor
allocate_no_bump(a, num_bytes) ==
  IF a.ptr - num_bytes < 0
  THEN [status |-> "panic", alloc |-> a, ptr |-> NullPtr]
  ELSE LET new_ptr == RoundDown(a.ptr - num_bytes, a.align)
       IN  IF new_ptr < a.start
           THEN [status |-> "abort", alloc |-> a, ptr |-> NullPtr]
           ELSE [status |-> "ok", alloc |-> a, ptr |-> new_ptr]

\* allocate rounding the new address up to the alignment
allocate_rounds_up(a, num_bytes) ==
  IF a.ptr - num_bytes < 0
  THEN [status |-> "panic", alloc |-> a, ptr |-> NullPtr]
  ELSE LET new_ptr == RoundDown(a.ptr - num_bytes + a.align - 1, a.align)
       IN  IF new_ptr < a.start
           THEN [status |-> "abort", alloc |-> a, ptr |-> NullPtr]
           ELSE [status |-> "ok", alloc |-> [a EXCEPT !.ptr = new_ptr], ptr |-> new_ptr]

\* [status, alloc, ptr]: "ok", or "panic" (checked_sub), or "abort"
allocate(a, num_bytes) ==
  IF a.ptr - num_bytes < 0
  THEN [status |-> "panic", alloc |-> a, ptr |-> NullPtr]
  ELSE LET new_ptr == RoundDown(a.ptr - num_bytes, a.align)
       IN  IF new_ptr < a.start
           THEN [status |-> "abort", alloc |-> a, ptr |-> NullPtr]
           ELSE [status |-> "ok", alloc |-> [a EXCEPT !.ptr = new_ptr], ptr |-> new_ptr]

(***************************************************************************)
(* StringCache (stringcache.rs).  entries is the slot vector: slot pos of  *)
(* the code is entries[pos + 1].                                           *)
(***************************************************************************)
StringCache_new(live) ==
  LET cap == INITIAL_CAPACITY \div NUM_BINS
  IN  [alloc |-> LeakyBumpAlloc_new(live, INITIAL_ALLOC \div NUM_BINS, AlignOfEntry),
       old_allocs |-> << >>,
       entries |-> [i \in 1 .. cap |-> NullPtr],
       num_entries |-> 0,
       mask |-> cap - 1,
       total_allocated |-> cap]

\* the bytes of the entry whose header is at `entry`, read with length n
EntryChars(m, entry, n) == [i \in 1 .. n |-> Load(m, entry + SizeOfEntry + i - 1)]

\* EntryMatches without the comparison of the bytes
EntryMatches_no_bytes(m, entry, string, hash) ==
  /\ Load(m, entry) = hash
  /\ Load(m, entry + SizeOfHash) = Len(string)

\* EntryMatches comparing the hashes only
EntryMatches_hash_only(m, entry, string, hash) == Load(m, entry) = hash

\* EntryMatches never matching the empty string
EntryMatches_never_empty(m, entry, string, hash) ==
  /\ Len(string) > 0
  /\ Load(m, entry) = hash
  /\ Load(m, entry + SizeOfHash) = Len(string)
  /\ EntryChars(m, entry, Len(string)) = string

\* sce.hash == hash && sce.len == string.len() && chars == string
EntryMatches(m, entry, string, hash) ==
  /\ Load(m, entry) = hash
  /\ Load(m, entry + SizeOfHash) = Len(string)
  /\ EntryChars(m, entry, Len(string)) = string

\* get_existing_loop giving up at the first slot that does not match
get_existing_no_probe(sc, m, string, hash, pos, dist) ==
  LET entry == sc.entries[pos + 1]
  IN  IF entry # NullPtr /\ EntryMatches(m, entry, string, hash)
      THEN [kind |-> "some", ptr |-> entry + SizeOfEntry]
      ELSE [kind |-> "none", ptr |-> NullPtr]

RECURSIVE get_existing_loop(_, _, _, _, _, _)
get_existing_loop(sc, m, string, hash, pos, dist) ==
  LET entry == sc.entries[pos + 1]
  IN  IF entry = NullPtr THEN [kind |-> "none", ptr |-> NullPtr]
      ELSE IF EntryMatches(m, entry, string, hash)
      THEN [kind |-> "some", ptr |-> entry + SizeOfEntry]
      ELSE IF dist + 1 > sc.mask THEN [kind |-> "wrapped", ptr |-> NullPtr]
      ELSE get_existing_loop(sc, m, string, hash,
                             AndMask(pos + dist + 1, sc.mask), dist + 1)

get_existing(sc, m, string, hash) ==
  get_existing_loop(sc, m, string, hash, AndMask(hash, sc.mask), 0)

\* insert_loop passing over a matching entry as over any other
RECURSIVE insert_loop_skips_match(_, _, _, _, _, _)
insert_loop_skips_match(sc, m, string, hash, pos, dist) ==
  LET entry == sc.entries[pos + 1]
  IN  IF entry = NullPtr THEN [kind |-> "empty", pos |-> pos, ptr |-> NullPtr]
      ELSE IF dist + 1 > sc.mask THEN [kind |-> "wrapped", pos |-> pos, ptr |-> NullPtr]
      ELSE insert_loop_skips_match(sc, m, string, hash,
                                   AndMask(pos + dist + 1, sc.mask), dist + 1)

\* the probe loop of insert: a matching entry, or the empty slot to fill
RECURSIVE insert_loop(_, _, _, _, _, _)
insert_loop(sc, m, string, hash, pos, dist) ==
  LET entry == sc.entries[pos + 1]
  IN  IF entry = NullPtr THEN [kind |-> "empty", pos |-> pos, ptr |-> NullPtr]
      ELSE IF EntryMatches(m, entry, string, hash)
      THEN [kind |-> "found", pos |-> pos, ptr |-> entry + SizeOfEntry]
      ELSE IF dist + 1 > sc.mask THEN [kind |-> "wrapped", pos |-> pos, ptr |-> NullPtr]
      ELSE insert_loop(sc, m, string, hash,
                       AndMask(pos + dist + 1, sc.mask), dist + 1)

\* the landing slot of grow's probe in the new table
RECURSIVE grow_probe(_, _, _, _)
grow_probe(new_entries, new_mask, pos, dist) ==
  IF new_entries[pos + 1] = NullPtr \/ dist + 1 > new_mask THEN pos
  ELSE grow_probe(new_entries, new_mask, AndMask(pos + dist + 1, new_mask), dist + 1)

RECURSIVE grow_copy(_, _, _, _, _, _)
grow_copy(old, m, new_entries, new_mask, i, to_copy) ==
  IF i > Len(old) \/ to_copy = 0 THEN new_entries
  ELSE IF old[i] = NullPtr
  THEN grow_copy(old, m, new_entries, new_mask, i + 1, to_copy)
  ELSE LET hash == Load(m, old[i])
           pos == grow_probe(new_entries, new_mask, AndMask(hash, new_mask), 0)
       IN  grow_copy(old, m, [new_entries EXCEPT ![pos + 1] = old[i]],
                     new_mask, i + 1, to_copy - 1)

\* grow rebuilding the table at the size it has
grow_keeps_size(sc, m) ==
  LET new_mask == sc.mask
      empty == [i \in 1 .. (new_mask + 1) |-> NullPtr]
  IN  [sc EXCEPT !.entries = grow_copy(sc.entries, m, empty, new_mask, 1, sc.num_entries),
                 !.mask = new_mask]

\* grow copying every pointer to the slot it had in the old table
grow_same_slots(sc, m) ==
  LET new_mask == sc.mask * 2 + 1
  IN  [sc EXCEPT !.entries = [i \in 1 .. (new_mask + 1) |->
                                IF i <= Len(sc.entries) THEN sc.entries[i] ELSE NullPtr],
                 !.mask = new_mask]

\* grow copying one pointer fewer than there are entries
grow_drops_one(sc, m) ==
  LET new_mask == sc.mask * 2 + 1
      empty == [i \in 1 .. (new_mask + 1) |-> NullPtr]
  IN  [sc EXCEPT !.entries = grow_copy(sc.entries, m, empty, new_mask, 1,
                                       sc.num_entries - 1),
                 !.mask = new_mask]

grow(sc, m) ==
  LET new_mask == sc.mask * 2 + 1
      empty == [i \in 1 .. (new_mask + 1) |-> NullPtr]
  IN  [sc EXCEPT !.entries = grow_copy(sc.entries, m, empty, new_mask, 1, sc.num_entries),
                 !.mask = new_mask]

\* EntryCells storing the length with the NUL counted in
EntryCells_len_with_nul(p, string, hash) ==
  [a \in {p, p + SizeOfHash} \cup ((p + SizeOfEntry) .. (p + SizeOfEntry + Len(string))) |->
     IF a = p THEN hash
     ELSE IF a = p + SizeOfHash THEN Len(string) + 1
     ELSE IF a = p + SizeOfEntry + Len(string) THEN 0
     ELSE string[a - (p + SizeOfEntry) + 1]]

\* EntryCells without the trailing NUL
EntryCells_no_nul(p, string, hash) ==
  [a \in {p, p + SizeOfHash} \cup ((p + SizeOfEntry) .. (p + SizeOfEntry + Len(string) - 1)) |->
     IF a = p THEN hash
     ELSE IF a = p + SizeOfHash THEN Len(string)
     ELSE string[a - (p + SizeOfEntry) + 1]]

\* the cells insert writes for an entry at header address p
EntryCells(p, string, hash) ==
  [a \in {p, p + SizeOfHash} \cup ((p + SizeOfEntry) .. (p + SizeOfEntry + Len(string))) |->
     IF a = p THEN hash
     ELSE IF a = p + SizeOfHash THEN Len(string)
     ELSE IF a = p + SizeOfEntry + Len(string) THEN 0
     ELSE string[a - (p + SizeOfEntry) + 1]]

\* insert_retire sizing the new arena as twice the old, whatever the request
insert_retire_no_max(sc, live, alloc_size) ==
  LET cap == capacity(sc.alloc)
      used == allocated(sc.alloc)
  IN  IF alloc_size + used > cap
      THEN [sc EXCEPT !.alloc = LeakyBumpAlloc_new(live, cap * 2, AlignOfEntry),
                      !.old_allocs = Append(sc.old_allocs, sc.alloc),
                      !.total_allocated = sc.total_allocated + cap * 2]
      ELSE sc

\* insert_retire dropping the old arena instead of keeping it in the list
insert_retire_drops_old(sc, live, alloc_size) ==
  LET cap == capacity(sc.alloc)
      used == allocated(sc.alloc)
  IN  IF alloc_size + used > cap
      THEN LET new_capacity == Max(cap * 2, alloc_size)
           IN  [sc EXCEPT !.alloc = LeakyBumpAlloc_new(live, new_capacity, AlignOfEntry),
                          !.total_allocated = sc.total_allocated + new_capacity]
      ELSE sc

\* the arena the entry goes to: the current one, or a new one when the
\* request would spill over (the old one is retired)
insert_retire(sc, live, alloc_size) ==
  LET cap == capacity(sc.alloc)
      used == allocated(sc.alloc)
  IN  IF alloc_size + used > cap
      THEN LET new_capacity == Max(cap * 2, alloc_size)
           IN  [sc EXCEPT !.alloc = LeakyBumpAlloc_new(live, new_capacity, AlignOfEntry),
                          !.old_allocs = Append(sc.old_allocs, sc.alloc),
                          !.total_allocated = sc.total_allocated + new_capacity]
      ELSE sc

\* insert_new that never grows the table
insert_new_no_grow(sc, m, live, string, hash, pos) ==
  LET alloc_size == SizeOfEntry + (Len(string) + 1)
      sc1 == insert_retire(sc, live, alloc_size)
      al == allocate(sc1.alloc, alloc_size)
  IN  IF al.status # "ok"
      THEN [status |-> al.status, sc |-> sc1, mem |-> m, ptr |-> NullPtr, hit |-> FALSE]
      ELSE [status |-> "ok",
            sc |-> [sc1 EXCEPT !.alloc = al.alloc,
                               !.entries[pos + 1] = al.ptr,
                               !.num_entries = sc1.num_entries + 1],
            mem |-> Store(m, EntryCells(al.ptr, string, hash)),
            ptr |-> al.ptr + SizeOfEntry, hit |-> FALSE]

\* insert_new giving the bytes of an arena back to the system when it
\* retires it
insert_new_frees_retired(sc, m, live, string, hash, pos) ==
  LET alloc_size == SizeOfEntry + (Len(string) + 1)
      sc1 == insert_retire(sc, live, alloc_size)
      m1 == IF sc1.old_allocs # sc.old_allocs
            THEN Release(m, sc.alloc.start, sc.alloc.end) ELSE m
      al == allocate(sc1.alloc, alloc_size)
  IN  IF al.status # "ok"
      THEN [status |-> al.status, sc |-> sc1, mem |-> m, ptr |-> NullPtr, hit |-> FALSE]
      ELSE LET sc2 == [sc1 EXCEPT !.alloc = al.alloc,
                                  !.entries[pos + 1] = al.ptr,
                                  !.num_entries = sc1.num_entries + 1]
               m2 == Store(m1, EntryCells(al.ptr, string, hash))
               sc3 == IF sc2.num_entries * 2 > sc2.mask THEN grow(sc2, m2) ELSE sc2
           IN  [status |-> "ok", sc |-> sc3, mem |-> m2,
                ptr |-> al.ptr + SizeOfEntry, hit |-> FALSE]

\* insert_new filling the slot without counting the entry
insert_new_uncounted(sc, m, live, string, hash, pos) ==
  LET alloc_size == SizeOfEntry + (Len(string) + 1)
      sc1 == insert_retire(sc, live, alloc_size)
      al == allocate(sc1.alloc, alloc_size)
  IN  IF al.status # "ok"
      THEN [status |-> al.status, sc |-> sc1, mem |-> m, ptr |-> NullPtr, hit |-> FALSE]
      ELSE LET sc2 == [sc1 EXCEPT !.alloc = al.alloc,
                                  !.entries[pos + 1] = al.ptr]
               m2 == Store(m, EntryCells(al.ptr, string, hash))
               sc3 == IF sc2.num_entries * 2 > sc2.mask THEN grow(sc2, m2) ELSE sc2
           IN  [status |-> "ok", sc |-> sc3, mem |-> m2,
                ptr |-> al.ptr + SizeOfEntry, hit |-> FALSE]

\* the miss path of insert, from the empty slot pos on
insert_new(sc, m, live, string, hash, pos) ==
  LET alloc_size == SizeOfEntry + (Len(string) + 1)
      sc1 == insert_retire(sc, live, alloc_size)
      al == allocate(sc1.alloc, alloc_size)
  IN  IF al.status # "ok"
      THEN [status |-> al.status, sc |-> sc1, mem |-> m, ptr |-> NullPtr, hit |-> FALSE]
      ELSE LET sc2 == [sc1 EXCEPT !.alloc = al.alloc,
                                  !.entries[pos + 1] = al.ptr,
                                  !.num_entries = sc1.num_entries + 1]
               m2 == Store(m, EntryCells(al.ptr, string, hash))
               sc3 == IF sc2.num_entries * 2 > sc2.mask THEN grow(sc2, m2) ELSE sc2
           IN  [status |-> "ok", sc |-> sc3, mem |-> m2,
                ptr |-> al.ptr + SizeOfEntry, hit |-> FALSE]

\* insert counting the entry again on the hit path
insert_counts_hits(sc, m, live, string, hash) ==
  LET p == insert_loop(sc, m, string, hash, AndMask(hash, sc.mask), 0)
  IN  CASE p.kind = "found" ->
             [status |-> "ok", sc |-> [sc EXCEPT !.num_entries = sc.num_entries + 1],
              mem |-> m, ptr |-> p.ptr, hit |-> TRUE]
        [] p.kind = "empty" -> insert_new(sc, m, live, string, hash, p.pos)
        [] OTHER ->
             [status |-> "hang", sc |-> sc, mem |-> m, ptr |-> NullPtr, hit |-> FALSE]

\* insert taking the bytes of an entry from the arena on the hit path too
insert_bumps_on_hit(sc, m, live, string, hash) ==
  LET p == insert_loop(sc, m, string, hash, AndMask(hash, sc.mask), 0)
      al == allocate(sc.alloc, SizeOfEntry + (Len(string) + 1))
  IN  CASE p.kind = "found" ->
             [status |-> "ok",
              sc |-> IF al.status = "ok" THEN [sc EXCEPT !.alloc = al.alloc] ELSE sc,
              mem |-> m, ptr |-> p.ptr, hit |-> TRUE]
        [] p.kind = "empty" -> insert_new(sc, m, live, string, hash, p.pos)
        [] OTHER ->
             [status |-> "hang", sc |-> sc, mem |-> m, ptr |-> NullPtr, hit |-> FALSE]

insert(sc, m, live, string, hash) ==
  LET p == insert_loop(sc, m, string, hash, AndMask(hash, sc.mask), 0)
  IN  CASE p.kind = "found" ->
             [status |-> "ok", sc |-> sc, mem |-> m, ptr |-> p.ptr, hit |-> TRUE]
        [] p.kind = "empty" -> insert_new(sc, m, live, string, hash, p.pos)
        [] OTHER ->
             [status |-> "hang", sc |-> sc, mem |-> m, ptr |-> NullPtr, hit |-> FALSE]

\* total_allocated reporting the shard's total_allocated field
total_allocated_field(sc) == sc.total_allocated

total_allocated(sc) ==
  LET RECURSIVE sum(_)
      sum(i) == IF i = 0 THEN 0 ELSE allocated(sc.old_allocs[i]) + sum(i - 1)
  IN  allocated(sc.alloc) + sum(Len(sc.old_allocs))

total_capacity(sc) ==
  LET RECURSIVE sum(_)
      sum(i) == IF i = 0 THEN 0 ELSE capacity(sc.old_allocs[i]) + sum(i - 1)
  IN  capacity(sc.alloc) + sum(Len(sc.old_allocs))

\* the regions a shard owns
ShardRegions(sc) == {sc.alloc} \cup {sc.old_allocs[i] : i \in 1 .. Len(sc.old_allocs)}

\* clear leaving the retired arenas in the list
clear_keeps_retired(sc, m, others) ==
  [sc |-> [sc EXCEPT !.entries = [i \in 1 .. (sc.mask + 1) |-> NullPtr],
                     !.num_entries = 0,
                     !.total_allocated = 0,
                     !.alloc = LeakyBumpAlloc_new(others \cup ShardRegions(sc),
                                                  INITIAL_ALLOC \div NUM_BINS, AlignOfEntry)],
   mem |-> m]

\* StringCache::clear: zero the slots, release every arena, install a
\* fresh initial arena (the slot vector keeps its size)
clear(sc, m, others) ==
  LET RECURSIVE freed(_, _)
      freed(mm, i) == IF i > Len(sc.old_allocs) THEN mm
                      ELSE freed(Release(mm, sc.old_allocs[i].start, sc.old_allocs[i].end), i + 1)
      m1 == Release(freed(m, 1), sc.alloc.start, sc.alloc.end)
  IN  [sc |-> [sc EXCEPT !.entries = [i \in 1 .. (sc.mask + 1) |-> NullPtr],
                         !.num_entries = 0,
                         !.total_allocated = 0,
                         !.old_allocs = << >>,
                         !.alloc = LeakyBumpAlloc_new(others, INITIAL_ALLOC \div NUM_BINS,
                                                      AlignOfEntry)],
       mem |-> m1]

(***************************************************************************)
(* Handle accessors (lib.rs): everything is read through the character     *)
(* pointer.                                                                *)
(***************************************************************************)
Ustr_len(m, char_ptr) == Load(m, char_ptr - SizeOfHash)
\* precomputed_hash reading the len field of the header
Ustr_precomputed_hash_reads_len(m, char_ptr) == Load(m, char_ptr - SizeOfHash)

Ustr_precomputed_hash(m, char_ptr) == Load(m, char_ptr - SizeOfHash - SizeOfHash)
Ustr_as_str(m, char_ptr) ==
  LET n == Load(m, char_ptr - SizeOfHash)
  IN  IF n = Uninit THEN << Uninit >> ELSE [i \in 1 .. n |-> Load(m, char_ptr + i - 1)]

\* <str as Ord>::cmp: the first differing byte decides, then the lengths
RECURSIVE str_cmp(_, _, _)
str_cmp(a, b, i) ==
  IF i > Len(a) /\ i > Len(b) THEN "Equal"
  ELSE IF i > Len(a) THEN "Less"
  ELSE IF i > Len(b) THEN "Greater"
  ELSE IF a[i] < b[i] THEN "Less"
  ELSE IF a[i] > b[i] THEN "Greater"
  ELSE str_cmp(a, b, i + 1)

\* cmp comparing the character pointers
Ustr_cmp_by_pointer(m, p1, p2) ==
  IF p1 = p2 THEN "Equal" ELSE IF p1 < p2 THEN "Less" ELSE "Greater"

\* <Ustr as Ord>::cmp
Ustr_cmp(m, p1, p2) == str_cmp(Ustr_as_str(m, p1), Ustr_as_str(m, p2), 1)

(***************************************************************************)
(* Hashing a handle (lib.rs, hash.rs).  <Ustr as Hash>::hash feeds the     *)
(* precomputed hash to the hasher as a u64: Hasher::write_u64 passes the   *)
(* eight bytes of the value, in the byte order of the machine, to write.   *)
(***************************************************************************)
\* u64::to_ne_bytes (byte 1 is the least significant)
RECURSIVE to_ne_bytes_from(_, _)
to_ne_bytes_from(v, n) ==
  IF n = 0 THEN << >> ELSE << v % 256 >> \o to_ne_bytes_from(v \div 256, n - 1)
to_ne_bytes(v) == to_ne_bytes_from(v, SizeOfHash)

\* NativeEndian::read_u64
RECURSIVE read_u64_from(_, _)
read_u64_from(bytes, i) ==
  IF i > Len(bytes) THEN 0 ELSE bytes[i] + 256 * read_u64_from(bytes, i + 1)
read_u64(bytes) == read_u64_from(bytes, 1)

\* IdentityHasher: the state is the field hash, 0 by Default
IdentityHasher_default == 0

\* write taking the value from a slice of four bytes only
IdentityHasher_write_u32_only(hash, bytes) ==
  IF Len(bytes) = 4 THEN read_u64(bytes) ELSE hash

IdentityHasher_write(hash, bytes) ==
  IF Len(bytes) = SizeOfHash THEN read_u64(bytes) ELSE hash

IdentityHasher_finish(hash) == hash

\* <Ustr as Hash>::hash with an IdentityHasher: the state after the call
Ustr_hash(m, char_ptr, state) ==
  IdentityHasher_write(state, to_ne_bytes(Ustr_precomputed_hash(m, char_ptr)))

\* UstrMap: a hash map keyed by handles.  An entry is kept with the value
\* finish() gave for its key; a key is looked up among the entries of its
\* hash by handle equality (equality of the character pointers).
UstrMap_hash(m, k) == IdentityHasher_finish(Ustr_hash(m, k, IdentityHasher_default))
UstrMap_insert(map, m, k, v) ==
  {e \in map : ~(e.hash = UstrMap_hash(m, k) /\ e.key = k)}
     \cup {[hash |-> UstrMap_hash(m, k), key |-> k, val |-> v]}
UstrMap_get(map, m, k) ==
  {e.val : e \in {x \in map : x.hash = UstrMap_hash(m, k) /\ x.key = k}}

(***************************************************************************)
(* State.                                                                  *)
(***************************************************************************)
VARIABLES
  hashOf,     \* the hash function: string -> 64-bit hash (fixed for a run)
  cache,      \* STRING_CACHE: bin -> StringCache
  mem,        \* the heap
  iter,       \* the StringCacheIterator in use, if any
  ret,        \* what the last intern / lookup returned
  crashed,    \* "no", or how the process died
  issued,     \* the handles intern returned since the cache was last empty:
              \* [s: the input, ptr: the character pointer]
  interned    \* the strings interned since the cache was last empty, each with
              \* the mask and the number of retired arenas of its shard when
              \* its first intern returned

VARIABLES
  locks,      \* the mutex of each shard: the thread that holds it, 0 when free
  thr         \* each thread's call in progress: where it is (pc), its input,
              \* the hash, the slot its probe ended at and the pointer it got;
              \* an idle thread keeps the input and the result of its last call

vars == << hashOf, cache, mem, iter, ret, crashed, issued, interned, locks, thr >>

InternedStrings == {r.s : r \in interned}

Live(c) == UNION {ShardRegions(c[b]) : b \in Bins}
LiveExcept(c, bin) == UNION {ShardRegions(c[b]) : b \in Bins \ {bin}}

\* the lazy_static initializer: the shards are built one after the other
RECURSIVE InitBins(_)
InitBins(n) ==
  IF n = 0 THEN << >>
  ELSE LET prev == InitBins(n - 1)
           live == UNION {ShardRegions(prev[i]) : i \in 1 .. (n - 1)}
       IN  Append(prev, StringCache_new(live))

NoIter == [state |-> "none", allocs |-> << >>, current_alloc |-> 0,
           current_ptr |-> NullPtr, yielded |-> << >>, stale |-> FALSE]
IdleThread == [pc |-> "idle", s |-> << >>, hash |-> 0, pos |-> 0, ptr |-> NullPtr]
NoRet == [op |-> "none", s |-> << >>, ptr |-> NullPtr, hit |-> FALSE]

Init ==
  /\ hashOf \in HashFns
  /\ cache = [b \in Bins |-> InitBins(NUM_BINS)[b + 1]]
  /\ mem = << >>
  /\ iter = NoIter
  /\ ret = NoRet
  /\ crashed = "no"
  /\ issued = {}
  /\ interned = {}
  /\ locks = [b \in Bins |-> 0]
  /\ thr = [t \in Threads |-> IdleThread]

(***************************************************************************)
(* Public surface (lib.rs), one thread.                                    *)
(***************************************************************************)
num_entries == 
  LET RECURSIVE sum(_)
      sum(n) == IF n = 0 THEN 0 ELSE cache[n - 1].num_entries + sum(n - 1)
  IN  sum(NUM_BINS)

pub_total_allocated ==
  LET RECURSIVE sum(_)
      sum(n) == IF n = 0 THEN 0 ELSE total_allocated(cache[n - 1]) + sum(n - 1)
  IN  sum(NUM_BINS)

pub_total_capacity ==
  LET RECURSIVE sum(_)
      sum(n) == IF n = 0 THEN 0 ELSE total_capacity(cache[n - 1]) + sum(n - 1)
  IN  sum(NUM_BINS)

\* Ustr::from / ustr
Ustr_from(string) ==
  /\ crashed = "no"
  /\ LET hash == hashOf[string]
         bin == whichbin(hash)
         r == insert(cache[bin], mem, Live(cache), string, hash)
     IN  IF r.status = "ok"
         THEN /\ cache' = [cache EXCEPT ![bin] = r.sc]
              /\ mem' = r.mem
              /\ ret' = [op |-> "from", s |-> string, ptr |-> r.ptr, hit |-> r.hit]
              /\ issued' = issued \cup {[s |-> string, ptr |-> r.ptr]}
              /\ interned' = IF string \in InternedStrings THEN interned
                              ELSE interned \cup {[s |-> string, mask |-> r.sc.mask,
                                                   nold |-> Len(r.sc.old_allocs)]}
              /\ iter' = IF iter.state # "active" THEN NoIter
                         ELSE IF r.hit THEN iter ELSE [iter EXCEPT !.stale = TRUE]
              /\ crashed' = crashed
         ELSE /\ crashed' = r.status
              /\ UNCHANGED << cache, mem, ret, issued, interned, iter >>
  /\ UNCHANGED << hashOf, locks, thr >>

\* from_existing calling insert instead of get_existing
Ustr_from_existing_inserts(string) ==
  /\ crashed = "no"
  /\ LET hash == hashOf[string]
         bin == whichbin(hash)
         r == insert(cache[bin], mem, Live(cache), string, hash)
     IN  /\ r.status = "ok"
         /\ cache' = [cache EXCEPT ![bin] = r.sc]
         /\ mem' = r.mem
         /\ ret' = [op |-> "from_existing", s |-> string, ptr |-> r.ptr, hit |-> r.hit]
  /\ iter' = IF iter.state # "active" THEN NoIter ELSE iter
  /\ UNCHANGED << hashOf, crashed, issued, interned, locks, thr >>

\* Ustr::from_existing / existing_ustr
Ustr_from_existing(string) ==
  /\ crashed = "no"
  /\ LET hash == hashOf[string]
         bin == whichbin(hash)
         r == get_existing(cache[bin], mem, string, hash)
     IN  IF r.kind = "wrapped"
         THEN /\ crashed' = "hang"
              /\ ret' = ret
         ELSE /\ ret' = [op |-> "from_existing", s |-> string, ptr |-> r.ptr,
                         hit |-> r.kind = "some"]
              /\ crashed' = crashed
  /\ iter' = IF iter.state # "active" THEN NoIter ELSE iter
  /\ UNCHANGED << hashOf, cache, mem, issued, interned, locks, thr >>

\* the loop of _clear_cache from shard b on
RECURSIVE clear_from(_, _, _)
clear_from(c, m, b) ==
  IF b = NUM_BINS THEN [cache |-> c, mem |-> m]
  ELSE LET r == clear(c[b], m, LiveExcept(c, b))
       IN  clear_from([c EXCEPT ![b] = r.sc], r.mem, b + 1)

\* _clear_cache: every shard in turn
clear_cache ==
  /\ crashed = "no"
  /\ iter.state # "active"
  /\ LET r == clear_from(cache, mem, 0)
     IN  /\ cache' = r.cache
         /\ mem' = r.mem
  /\ iter' = NoIter
  /\ ret' = NoRet
  /\ issued' = {}
  /\ interned' = {}
  /\ UNCHANGED << hashOf, crashed, locks, thr >>

(***************************************************************************)
(* The iterator over the whole cache.                                      *)
(***************************************************************************)
\* the snapshot of one shard: (ptr, end) of the retired arenas, then of
\* the current arena unless it is empty
ShardAllocs(sc) ==
  [i \in 1 .. Len(sc.old_allocs) |-> << sc.old_allocs[i].ptr, sc.old_allocs[i].end >>]
  \o (IF sc.alloc.ptr # sc.alloc.end THEN << << sc.alloc.ptr, sc.alloc.end >> >> ELSE << >>)

RECURSIVE SnapshotAllocs(_, _)
SnapshotAllocs(c, n) ==
  IF n = 0 THEN << >> ELSE SnapshotAllocs(c, n - 1) \o ShardAllocs(c[n - 1])

\* string_cache_iter (lib.rs): allocs[0] panics when nothing was snapshotted
string_cache_iter ==
  /\ crashed = "no"
  /\ iter.state # "active"
  /\ LET allocs == SnapshotAllocs(cache, NUM_BINS)
     IN  iter' = IF allocs = << >>
                 THEN [NoIter EXCEPT !.state = "panicked"]
                 ELSE [state |-> "active", allocs |-> allocs, current_alloc |-> 0,
                       current_ptr |-> allocs[1][1], yielded |-> << >>, stale |-> FALSE]
  /\ ret' = NoRet
  /\ UNCHANGED << hashOf, cache, mem, crashed, issued, interned, locks, thr >>

\* what the walk yields when it reads a header outside the handed-out range
Garbage == << 255 >>

\* StringCacheEntry::char_ptr of the entry whose header is at p
char_ptr(p) == p + SizeOfEntry

\* StringCacheEntry::next_entry of the entry whose header is at p
next_entry(m, p) ==
  char_ptr(p) + round_up_to(Load(m, p + SizeOfHash) + 1, AlignOfEntry)

\* StringCacheIterator::next
StringCacheIterator_next ==
  /\ crashed = "no"
  /\ iter.state = "active"
  /\ LET end == iter.allocs[iter.current_alloc + 1][2]
         at_end == iter.current_ptr >= end
     IN  IF at_end /\ iter.current_alloc = Len(iter.allocs) - 1
         THEN iter' = [iter EXCEPT !.state = "done"]
         ELSE LET ca == IF at_end THEN iter.current_alloc + 1 ELSE iter.current_alloc
                  cp == IF at_end THEN iter.allocs[ca + 1][1] ELSE iter.current_ptr
                  n == Load(mem, cp + SizeOfHash)
              IN  IF cp + SizeOfEntry <= iter.allocs[ca + 1][2]
                  THEN iter' = [iter EXCEPT
                                  !.current_alloc = ca,
                                  !.current_ptr = next_entry(mem, cp),
                                  !.yielded = Append(iter.yielded, EntryChars(mem, cp, n))]
                  ELSE \* the header read is not inside the arena's handed-out bytes
                       \E out \in {"fault", "garbage"} :
                         iter' = [iter EXCEPT
                                    !.state = IF out = "fault" THEN "fault" ELSE "ub",
                                    !.current_alloc = ca,
                                    !.current_ptr = cp,
                                    !.yielded = IF out = "garbage"
                                                THEN Append(iter.yielded, Garbage)
                                                ELSE iter.yielded]
  /\ UNCHANGED << hashOf, cache, mem, ret, crashed, issued, interned, locks, thr >>

(***************************************************************************)
(* Serialization of the cache (serialization.rs).  Serialize for Bins      *)
(* collects string_cache_iter() into the sequence it writes; visit_seq     *)
(* interns every element of the sequence it reads.                         *)
(***************************************************************************)
\* the sequence a finished walk has collected
Bins_serialize == iter.yielded

\* BinsVisitor::visit_seq from element i on: [status, cache, mem]
RECURSIVE visit_seq(_, _, _, _)
visit_seq(c, m, seq, i) ==
  IF i > Len(seq) THEN [status |-> "ok", cache |-> c, mem |-> m]
  ELSE LET hash == hashOf[seq[i]]
           bin == whichbin(hash)
           r == insert(c[bin], m, Live(c), seq[i], hash)
       IN  IF r.status # "ok" THEN [status |-> r.status, cache |-> c, mem |-> m]
           ELSE visit_seq([c EXCEPT ![bin] = r.sc], r.mem, seq, i + 1)

\* One thread: an iterator is drained before the next call is made.
Next ==
  \/ \E s \in Strings : iter.state # "active" /\ Ustr_from(s)
  \/ \E s \in Strings : iter.state # "active" /\ Ustr_from_existing(s)
  \/ clear_cache
  \/ string_cache_iter
  \/ StringCacheIterator_next

Spec == Init /\ [][Next]_vars

(***************************************************************************)
(* Ustr::from called by several threads.  A call hashes its input without  *)
(* the lock, takes the mutex of the shard the hash routes to, runs insert  *)
(* (its probe, then on a miss the allocation and the writes) and releases  *)
(* the mutex when the guard is dropped at the return.                      *)
(***************************************************************************)
\* the hash is computed before the lock is taken
from_call(t, string) ==
  /\ crashed = "no"
  /\ thr[t].pc = "idle"
  /\ thr' = [thr EXCEPT ![t] = [pc |-> "lock", s |-> string, hash |-> hashOf[string],
                                pos |-> 0, ptr |-> NullPtr]]
  /\ UNCHANGED << hashOf, cache, mem, iter, ret, crashed, issued, interned, locks >>

\* from_lock taking the mutex whether or not it is held
from_lock_no_wait(t) ==
  /\ crashed = "no"
  /\ thr[t].pc = "lock"
  /\ locks' = [locks EXCEPT ![whichbin(thr[t].hash)] = t]
  /\ thr' = [thr EXCEPT ![t].pc = "probe"]
  /\ UNCHANGED << hashOf, cache, mem, iter, ret, crashed, issued, interned >>

\* from_lock waiting until no mutex at all is held
from_lock_one_mutex(t) ==
  /\ crashed = "no"
  /\ thr[t].pc = "lock"
  /\ \A b \in Bins : locks[b] = 0
  /\ locks' = [locks EXCEPT ![whichbin(thr[t].hash)] = t]
  /\ thr' = [thr EXCEPT ![t].pc = "probe"]
  /\ UNCHANGED << hashOf, cache, mem, iter, ret, crashed, issued, interned >>

\* STRING_CACHE.0[whichbin(hash)].lock()
from_lock(t) ==
  /\ crashed = "no"
  /\ thr[t].pc = "lock"
  /\ locks[whichbin(thr[t].hash)] = 0
  /\ locks' = [locks EXCEPT ![whichbin(thr[t].hash)] = t]
  /\ thr' = [thr EXCEPT ![t].pc = "probe"]
  /\ UNCHANGED << hashOf, cache, mem, iter, ret, crashed, issued, interned >>

\* the probe loop of insert
from_probe(t) ==
  /\ crashed = "no"
  /\ thr[t].pc = "probe"
  /\ LET sc == cache[whichbin(thr[t].hash)]
         p == insert_loop(sc, mem, thr[t].s, thr[t].hash, AndMask(thr[t].hash, sc.mask), 0)
     IN  CASE p.kind = "found" ->
                /\ thr' = [thr EXCEPT ![t].pc = "unlock", ![t].ptr = p.ptr]
                /\ crashed' = crashed
           [] p.kind = "empty" ->
                /\ thr' = [thr EXCEPT ![t].pc = "write", ![t].pos = p.pos]
                /\ crashed' = crashed
           [] OTHER ->
                /\ crashed' = "hang"
                /\ thr' = thr
  /\ UNCHANGED << hashOf, cache, mem, iter, ret, issued, interned, locks >>

\* the miss path of insert
from_write(t) ==
  /\ crashed = "no"
  /\ thr[t].pc = "write"
  /\ LET bin == whichbin(thr[t].hash)
         r == insert_new(cache[bin], mem, Live(cache), thr[t].s, thr[t].hash, thr[t].pos)
     IN  IF r.status = "ok"
         THEN /\ cache' = [cache EXCEPT ![bin] = r.sc]
              /\ mem' = r.mem
              /\ thr' = [thr EXCEPT ![t].pc = "unlock", ![t].ptr = r.ptr]
              /\ crashed' = crashed
         ELSE /\ crashed' = r.status
              /\ UNCHANGED << cache, mem, thr >>
  /\ UNCHANGED << hashOf, iter, ret, issued, interned, locks >>

\* the guard is dropped and the handle returned
from_return(t) ==
  /\ crashed = "no"
  /\ thr[t].pc = "unlock"
  /\ LET bin == whichbin(thr[t].hash)
     IN  /\ locks' = [locks EXCEPT ![bin] = 0]
         /\ issued' = issued \cup {[s |-> thr[t].s, ptr |-> thr[t].ptr]}
         /\ interned' = IF thr[t].s \in InternedStrings THEN interned
                         ELSE interned \cup {[s |-> thr[t].s, mask |-> cache[bin].mask,
                                              nold |-> Len(cache[bin].old_allocs)]}
  /\ thr' = [thr EXCEPT ![t] = [IdleThread EXCEPT !.s = thr[t].s, !.ptr = thr[t].ptr]]
  /\ UNCHANGED << hashOf, cache, mem, iter, ret, crashed >>

NextMT ==
  \/ \E t \in Threads : \E s \in Strings : from_call(t, s)
  \/ \E t \in Threads : from_lock(t)
  \/ \E t \in Threads : from_probe(t)
  \/ \E t \in Threads : from_write(t)
  \/ \E t \in Threads : from_return(t)

SpecMT == Init /\ [][NextMT]_vars

(***************************************************************************)
(* Ustr::from_existing called by several threads, next to Ustr::from: the  *)
(* hash is computed without the lock, get_existing runs under the mutex of *)
(* the shard and the guard is dropped at the return.                       *)
(***************************************************************************)
existing_call(t, string) ==
  /\ crashed = "no"
  /\ thr[t].pc = "idle"
  /\ thr' = [thr EXCEPT ![t] = [pc |-> "elock", s |-> string, hash |-> hashOf[string],
                                pos |-> 0, ptr |-> NullPtr]]
  /\ UNCHANGED << hashOf, cache, mem, iter, ret, crashed, issued, interned, locks >>

\* existing_lock taking the mutex whether or not it is held
existing_lock_no_wait(t) ==
  /\ crashed = "no"
  /\ thr[t].pc = "elock"
  /\ locks' = [locks EXCEPT ![whichbin(thr[t].hash)] = t]
  /\ thr' = [thr EXCEPT ![t].pc = "eprobe"]
  /\ UNCHANGED << hashOf, cache, mem, iter, ret, crashed, issued, interned >>

\* STRING_CACHE.0[whichbin(hash)].lock()
existing_lock(t) ==
  /\ crashed = "no"
  /\ thr[t].pc = "elock"
  /\ locks[whichbin(thr[t].hash)] = 0
  /\ locks' = [locks EXCEPT ![whichbin(thr[t].hash)] = t]
  /\ thr' = [thr EXCEPT ![t].pc = "eprobe"]
  /\ UNCHANGED << hashOf, cache, mem, iter, ret, crashed, issued, interned >>

\* sc.get_existing(string, hash)
existing_probe(t) ==
  /\ crashed = "no"
  /\ thr[t].pc = "eprobe"
  /\ LET r == get_existing(cache[whichbin(thr[t].hash)], mem, thr[t].s, thr[t].hash)
     IN  IF r.kind = "wrapped"
         THEN /\ crashed' = "hang"
              /\ thr' = thr
         ELSE /\ thr' = [thr EXCEPT ![t].pc = "eunlock", ![t].ptr = r.ptr]
              /\ crashed' = crashed
  /\ UNCHANGED << hashOf, cache, mem, iter, ret, issued, interned, locks >>

\* the guard is dropped and the Option returned (NullPtr stands for None)
existing_return(t) ==
  /\ crashed = "no"
  /\ thr[t].pc = "eunlock"
  /\ locks' = [locks EXCEPT ![whichbin(thr[t].hash)] = 0]
  /\ thr' = [thr EXCEPT ![t] = IdleThread]
  /\ UNCHANGED << hashOf, cache, mem, iter, ret, crashed, issued, interned >>

\* The inputs of the concurrent interns and lookups: two strings of the same
\* length that, depending on the hash function, collide on all hash bits,
\* share a first slot, share a shard only, or live in different shards.  The
\* hashes of the other inputs are of no account and fixed.
LinStrings == {StrA, StrB, StrL}

InitLin ==
  /\ Init
  /\ \A s \in Strings \ LinStrings : hashOf[s] = MkHash(0, 0)

NextLin ==
  \/ \E t \in Threads : \E s \in LinStrings : from_call(t, s)
  \/ \E t \in Threads : from_lock(t)
  \/ \E t \in Threads : from_probe(t)
  \/ \E t \in Threads : from_write(t)
  \/ \E t \in Threads : from_return(t)
  \/ \E t \in Threads : \E s \in LinStrings : existing_call(t, s)
  \/ \E t \in Threads : existing_lock(t)
  \/ \E t \in Threads : existing_probe(t)
  \/ \E t \in Threads : existing_return(t)

SpecLin == InitLin /\ [][NextLin]_vars

(***************************************************************************)
(* string_cache_iter called while other threads intern.  The call locks    *)
(* each shard in turn and copies the (ptr, end) pairs of its arenas; the   *)
(* walk that follows takes no lock.  The iterator record carries, next to  *)
(* the fields of StringCacheIterator, the shard the call has come to (bin) *)
(* and the strings whose intern had returned when the call began (before). *)
(***************************************************************************)
iter_call ==
  /\ crashed = "no"
  /\ iter.state = "none"
  /\ iter' = [state |-> "snapshot", allocs |-> << >>, current_alloc |-> 0,
              current_ptr |-> NullPtr, yielded |-> << >>, stale |-> FALSE,
              bin |-> 0, before |-> {h.s : h \in issued}]
  /\ UNCHANGED << hashOf, cache, mem, ret, crashed, issued, interned, locks, thr >>

\* one round of the loop: m.lock(), the pushes, the guard dropped
iter_snapshot ==
  /\ crashed = "no"
  /\ iter.state = "snapshot"
  /\ iter.bin < NUM_BINS
  /\ locks[iter.bin] = 0
  /\ iter' = [iter EXCEPT !.allocs = iter.allocs \o ShardAllocs(cache[iter.bin]),
                          !.bin = iter.bin + 1]
  /\ UNCHANGED << hashOf, cache, mem, ret, crashed, issued, interned, locks, thr >>

\* let current_ptr = allocs[0].0 and the construction of the iterator
iter_begin ==
  /\ crashed = "no"
  /\ iter.state = "snapshot"
  /\ iter.bin = NUM_BINS
  /\ iter' = IF iter.allocs = << >>
             THEN [iter EXCEPT !.state = "panicked"]
             ELSE [iter EXCEPT !.state = "active", !.current_ptr = iter.allocs[1][1]]
  /\ UNCHANGED << hashOf, cache, mem, ret, crashed, issued, interned, locks, thr >>

NextIter ==
  \/ \E t \in Threads : \E s \in LinStrings : from_call(t, s)
  \/ \E t \in Threads : from_lock(t)
  \/ \E t \in Threads : from_probe(t)
  \/ \E t \in Threads : from_write(t)
  \/ \E t \in Threads : from_return(t)
  \/ iter_call
  \/ iter_snapshot
  \/ iter_begin
  \/ StringCacheIterator_next

SpecIter == InitLin /\ [][NextIter]_vars

(***************************************************************************)
(* num_entries() called while other threads intern.  The call locks each   *)
(* shard in turn, reads its count and adds it to the sum.  The record of   *)
(* the call carries the shard it has come to (bin), the sum so far, and    *)
(* the number of entries the cache held when the call began (began) and    *)
(* when it returned (ended).                                               *)
(***************************************************************************)
\* the call may begin in any state of the interning threads; one call is
\* followed to its return
count_call ==
  /\ crashed = "no"
  /\ ret.op = "none"
  /\ ret' = [op |-> "num_entries", bin |-> 0, sum |-> 0,
             began |-> num_entries, ended |-> 0]
  /\ UNCHANGED << hashOf, cache, mem, iter, crashed, issued, interned, locks, thr >>

\* count_bin adding the size of the shard's slot vector
count_bin_reads_slots ==
  /\ crashed = "no"
  /\ ret.op = "num_entries"
  /\ ret.bin < NUM_BINS
  /\ locks[ret.bin] = 0
  /\ ret' = [ret EXCEPT !.sum = ret.sum + cache[ret.bin].mask + 1,
                        !.bin = ret.bin + 1]
  /\ UNCHANGED << hashOf, cache, mem, iter, crashed, issued, interned, locks, thr >>

\* one shard of the map: sc.lock().num_entries(), the guard dropped
count_bin ==
  /\ crashed = "no"
  /\ ret.op = "num_entries"
  /\ ret.bin < NUM_BINS
  /\ locks[ret.bin] = 0
  /\ ret' = [ret EXCEPT !.sum = ret.sum + cache[ret.bin].num_entries,
                        !.bin = ret.bin + 1]
  /\ UNCHANGED << hashOf, cache, mem, iter, crashed, issued, interned, locks, thr >>

\* .sum() returned
count_return ==
  /\ crashed = "no"
  /\ ret.op = "num_entries"
  /\ ret.bin = NUM_BINS
  /\ ret' = [ret EXCEPT !.op = "returned", !.ended = num_entries]
  /\ UNCHANGED << hashOf, cache, mem, iter, crashed, issued, interned, locks, thr >>

\* The inputs of the threads that intern during the call: two strings that,
\* depending on the hash function, go to one shard or to two.
CountStrings == {StrA, StrB}

InitCount ==
  /\ Init
  /\ \A s \in Strings \ CountStrings : hashOf[s] = MkHash(0, 0)

NextCount ==
  \/ \E t \in Threads : \E s \in CountStrings : from_call(t, s)
  \/ \E t \in Threads : from_lock(t)
  \/ \E t \in Threads : from_probe(t)
  \/ \E t \in Threads : from_write(t)
  \/ \E t \in Threads : from_return(t)
  \/ count_call
  \/ count_bin
  \/ count_return

SpecCount == InitCount /\ [][NextCount]_vars

(***************************************************************************)
(* The system allocator failing.  On the miss path insert asks for a new   *)
(* arena when the request does not fit the current one; LeakyBumpAlloc::new *)
(* panics when System.alloc returns null, and the panic unwinds out of     *)
(* insert while the thread holds the mutex of the shard.                   *)
(***************************************************************************)
\* the miss path of insert when System.alloc returns null: panic!("oom")
from_write_oom(t) ==
  /\ crashed = "no"
  /\ thr[t].pc = "write"
  /\ LET sc == cache[whichbin(thr[t].hash)]
         alloc_size == SizeOfEntry + (Len(thr[t].s) + 1)
     IN  alloc_size + allocated(sc.alloc) > capacity(sc.alloc)
  /\ crashed' = "panic"
  /\ UNCHANGED << hashOf, cache, mem, iter, ret, issued, interned, locks, thr >>

NextOom ==
  \/ \E t \in Threads : \E s \in LinStrings : from_call(t, s)
  \/ \E t \in Threads : from_lock(t)
  \/ \E t \in Threads : from_probe(t)
  \/ \E t \in Threads : from_write(t)
  \/ \E t \in Threads : from_write_oom(t)
  \/ \E t \in Threads : from_return(t)

SpecOom == InitLin /\ [][NextOom]_vars

(***************************************************************************)
(* The arena side of the miss path of insert for requests of every length: *)
(* the pre-check that retires the current arena, then allocate.  The slot  *)
(* table and the bytes written play no part in where the cursor goes, so   *)
(* the steps below apply these statements to the first shard alone.        *)
(***************************************************************************)
\* the longest string asked for: longer than twice the initial arena
MaxReqLen == 2 * (INITIAL_ALLOC \div NUM_BINS) + 2 * AlignOfEntry
\* the number of arenas a shard may retire
MaxRetired == 2

InitArena ==
  /\ Init
  /\ \A s \in Strings : hashOf[s] = MkHash(0, 0)

\* stringcache.rs:175-205 for a string of n bytes
insert_arena(n) ==
  /\ crashed = "no"
  /\ LET alloc_size == SizeOfEntry + (n + 1)
         sc1 == insert_retire(cache[0], Live(cache), alloc_size)
         al == allocate(sc1.alloc, alloc_size)
     IN  /\ Len(sc1.old_allocs) <= MaxRetired
         /\ IF al.status = "ok"
            THEN /\ cache' = [cache EXCEPT ![0] = [sc1 EXCEPT !.alloc = al.alloc]]
                 /\ crashed' = crashed
            ELSE /\ crashed' = al.status
                 /\ cache' = cache
  /\ UNCHANGED << hashOf, mem, iter, ret, issued, interned, locks, thr >>

NextArena == \E n \in 0 .. MaxReqLen : insert_arena(n)

SpecArena == InitArena /\ [][NextArena]_vars

(***************************************************************************)
(* The probe sequence of get_existing, insert and grow on its own: the     *)
(* walk of a loop that no slot ends, for every power-of-two slot count up  *)
(* to 2^MaxProbeShift and every hash.  The walk is held in ret.            *)
(***************************************************************************)
\* the largest table walked has 2^MaxProbeShift slots
MaxProbeShift == 4

\* let mut pos = self.mask & hash as usize; let mut dist = 0;
probe_start(hash, mask) == AndMask(hash, mask)

\* the next slot with dist stepping by two
probe_next_double(pos, dist, mask) == AndMask(pos + 2 * dist, mask)

\* pos = (pos + dist) & self.mask, dist being already incremented
probe_next(pos, dist, mask) == AndMask(pos + dist, mask)

InitProbe ==
  /\ hashOf \in HashFns
  /\ \A s \in Strings : hashOf[s] = MkHash(0, 0)
  /\ cache = [b \in Bins |-> InitBins(NUM_BINS)[b + 1]]
  /\ mem = << >>
  /\ iter = NoIter
  /\ \E k \in 0 .. MaxProbeShift : \E hash \in 0 .. (2 ^ HashBits - 1) :
        ret = [op |-> "probe", mask |-> 2 ^ k - 1, hash |-> hash,
               pos |-> probe_start(hash, 2 ^ k - 1), dist |-> 0,
               visited |-> << probe_start(hash, 2 ^ k - 1) >>]
  /\ crashed = "no"
  /\ issued = {}
  /\ interned = {}
  /\ locks = [b \in Bins |-> 0]
  /\ thr = [t \in Threads |-> IdleThread]

\* one round of the loop at a slot that is neither null nor a match
probe_step ==
  /\ ret.op = "probe"
  /\ ret.dist + 1 <= ret.mask
  /\ LET dist == ret.dist + 1
         pos == probe_next(ret.pos, dist, ret.mask)
     IN  ret' = [ret EXCEPT !.dist = dist, !.pos = pos,
                            !.visited = Append(ret.visited, pos)]
  /\ UNCHANGED << hashOf, cache, mem, iter, crashed, issued, interned, locks, thr >>

NextProbe == probe_step

SpecProbe == InitProbe /\ [][NextProbe]_vars

(***************************************************************************)
(* LeakyBumpAlloc on its own: an arena of any capacity up to MaxBumpCap,   *)
(* in the place of the first shard's arena, and allocate called with every *)
(* size, the sizes that do not fit included.  ret holds the last call and  *)
(* the ranges handed out so far.                                           *)
(***************************************************************************)
\* the largest capacity of the arena
MaxBumpCap == 27
BumpCaps == (MaxBumpCap - 3) .. MaxBumpCap

InitBump ==
  /\ hashOf \in HashFns
  /\ \A s \in Strings : hashOf[s] = MkHash(0, 0)
  /\ \E cap \in BumpCaps :
        LET c == [b \in Bins |-> InitBins(NUM_BINS)[b + 1]]
        IN  cache = [c EXCEPT ![0].alloc = LeakyBumpAlloc_new(Live(c), cap, AlignOfEntry)]
  /\ mem = << >>
  /\ iter = NoIter
  /\ ret = [op |-> "new", n |-> 0, ptr |-> NullPtr, before |-> NullPtr, handed |-> {}]
  /\ crashed = "no"
  /\ issued = {}
  /\ interned = {}
  /\ locks = [b \in Bins |-> 0]
  /\ thr = [t \in Threads |-> IdleThread]

\* LeakyBumpAlloc::allocate(num_bytes)
bump_allocate(num_bytes) ==
  /\ crashed = "no"
  /\ LET al == allocate(cache[0].alloc, num_bytes)
     IN  IF al.status = "ok"
         THEN /\ cache' = [cache EXCEPT ![0].alloc = al.alloc]
              /\ ret' = [op |-> "allocate", n |-> num_bytes, ptr |-> al.ptr,
                         before |-> cache[0].alloc.ptr,
                         handed |-> ret.handed \cup {<< al.ptr, num_bytes >>}]
              /\ crashed' = crashed
         ELSE /\ crashed' = al.status
              /\ UNCHANGED << cache, ret >>
  /\ UNCHANGED << hashOf, mem, iter, issued, interned, locks, thr >>

NextBump == \E n \in 0 .. (MaxBumpCap + 1) : bump_allocate(n)

SpecBump == InitBump /\ [][NextBump]_vars

(***************************************************************************)
(* Interning and iteration with a string whose request exceeds twice the   *)
(* initial arena: its arena gets the capacity of the request, which is not *)
(* a multiple of the entry alignment, and so does the arena after it.      *)
(***************************************************************************)
\* a length whose request is one byte more than twice the initial arena
HugeLen == 2 * (INITIAL_ALLOC \div NUM_BINS) - SizeOfEntry
StrH == [i \in 1 .. HugeLen |-> 121]
StrC == << 99, 99 >>
WalkStrings == {StrA, StrC, StrH}

InitWalk ==
  /\ hashOf \in [WalkStrings -> {MkHash(0, 0), MkHash(1, 0)}]
  /\ cache = [b \in Bins |-> InitBins(NUM_BINS)[b + 1]]
  /\ mem = << >>
  /\ iter = NoIter
  /\ ret = NoRet
  /\ crashed = "no"
  /\ issued = {}
  /\ interned = {}
  /\ locks = [b \in Bins |-> 0]
  /\ thr = [t \in Threads |-> IdleThread]

NextWalk ==
  \/ \E s \in WalkStrings : iter.state # "active" /\ Ustr_from(s)
  \/ string_cache_iter
  \/ StringCacheIterator_next

SpecWalk == InitWalk /\ [][NextWalk]_vars

\* the mask of a shard's first table
InitialMask == (INITIAL_CAPACITY \div NUM_BINS) - 1

(***************************************************************************)
(* whichbin on its own, called with every hash; ret holds the call.        *)
(***************************************************************************)
InitRoute ==
  /\ Init
  /\ \A s \in Strings : hashOf[s] = MkHash(0, 0)

\* whichbin(hash), next to the first probe slot the hash selects
route_call(hash) ==
  /\ ret' = [op |-> "whichbin", hash |-> hash, bin |-> whichbin(hash),
             pos |-> probe_start(hash, InitialMask)]
  /\ UNCHANGED << hashOf, cache, mem, iter, crashed, issued, interned, locks, thr >>

NextRoute == \E hash \in 0 .. (2 ^ HashBits - 1) : route_call(hash)

SpecRoute == InitRoute /\ [][NextRoute]_vars

(***************************************************************************)
(* Properties.                                                             *)
(***************************************************************************)
ShardOf(s) == cache[whichbin(hashOf[s])]
Range(q) == {q[i] : i \in 1 .. Len(q)}

\* C1 (canonicalization): with no reset in between, any two intern calls
\* with byte-equal inputs returned the same character pointer, whatever was
\* interned, grown or retired between them.
Canonicalization ==
  \A h1 \in issued : \A h2 \in issued : h1.s = h2.s => h1.ptr = h2.ptr

\* a second intern of a string returned after its shard's table grew and
\* its arena was retired since the first
CanonicalizationWitness ==
  /\ ret.op = "from" /\ ret.hit
  /\ \E r \in interned : /\ r.s = ret.s
                         /\ ShardOf(r.s).mask > r.mask
                         /\ Len(ShardOf(r.s).old_allocs) > r.nold

\* C2 (injectivity): byte-unequal inputs got different character pointers,
\* and two issued handles are equal (same pointer) exactly when the bytes
\* they read are equal.
Injectivity ==
  \A h1 \in issued : \A h2 \in issued :
     /\ h1.s # h2.s => h1.ptr # h2.ptr
     /\ (h1.ptr = h2.ptr) <=> (Ustr_as_str(mem, h1.ptr) = Ustr_as_str(mem, h2.ptr))

\* two different strings of the same length and the same 64-bit hash are
\* both interned
InjectivityWitness ==
  \E h1 \in issued : \E h2 \in issued :
     h1.s # h2.s /\ Len(h1.s) = Len(h2.s) /\ hashOf[h1.s] = hashOf[h2.s]

\* C3 (content fidelity): the handle intern(s) returns reads back the bytes
\* of s and the length of s, on the miss path and on the hit path.
ContentFidelity ==
  ret.op = "from" =>
     /\ Ustr_as_str(mem, ret.ptr) = ret.s
     /\ Ustr_len(mem, ret.ptr) = Len(ret.s)

\* an intern of a non-empty string answered from an existing entry that
\* shares its first probe slot with another entry
ContentFidelityWitness ==
  /\ ret.op = "from" /\ ret.hit /\ ret.s = StrB
  /\ hashOf[StrB] = hashOf[StrA]
  /\ StrA \in InternedStrings

\* C4 (NUL termination): the byte at offset len of every issued handle is 0,
\* in every later state as well.
NulTerminated ==
  \A h \in issued : Load(mem, h.ptr + Len(h.s)) = 0

\* all four strings interned, three of them in one shard
NulTerminatedWitness ==
  /\ Cardinality(issued) = Cardinality(Strings)
  /\ \E b \in Bins : cache[b].num_entries >= 3

\* C5 (stability): a step other than the reset leaves the length, the hash,
\* the bytes and the NUL read through every issued handle as they were.
Stability ==
  [][\A h \in issued :
        h \in issued' =>
          /\ Ustr_len(mem', h.ptr) = Ustr_len(mem, h.ptr)
          /\ Ustr_precomputed_hash(mem', h.ptr) = Ustr_precomputed_hash(mem, h.ptr)
          /\ Ustr_as_str(mem', h.ptr) = Ustr_as_str(mem, h.ptr)
          /\ Ustr_len(mem, h.ptr) = Len(h.s)
          /\ Ustr_precomputed_hash(mem, h.ptr) = hashOf[h.s]]_vars

\* a handle whose arena was retired and whose shard's table grew after it
\* was issued
StabilityWitness ==
  \E r \in interned : /\ ShardOf(r.s).mask > r.mask
                      /\ Len(ShardOf(r.s).old_allocs) > r.nold
                      /\ \E h \in issued : h.s = r.s

\* C6 (count): num_entries() is the number of distinct strings interned
\* since the cache was last empty.
CountIsDistinct == num_entries = Cardinality(InternedStrings)

\* after a reset (a shard with a grown table and no entry), a string was
\* interned a second time
CountIsDistinctWitness ==
  /\ ret.op = "from" /\ ret.hit
  /\ num_entries >= 1
  /\ \E b \in Bins : cache[b].num_entries = 0 /\ cache[b].mask > InitialMask

\* C7 (lookup_existing): None for a string not interned since the cache was
\* last empty, and otherwise the handle intern returned for it.
LookupExisting ==
  ret.op = "from_existing" =>
     IF ret.s \in InternedStrings
     THEN ret.ptr # NullPtr /\ [s |-> ret.s, ptr |-> ret.ptr] \in issued
     ELSE ret.ptr = NullPtr

\* a lookup that found an entry behind a colliding one
LookupExistingWitness ==
  /\ ret.op = "from_existing" /\ ret.ptr # NullPtr
  /\ \E s \in InternedStrings :
        /\ s # ret.s /\ hashOf[s] = hashOf[ret.s]
        /\ \E h \in issued : h.s = s /\ h.ptr > ret.ptr

\* C8 (lookup never creates): a lookup step leaves the shards and the heap
\* as they were, hence the three statistics, and a lookup that returned None
\* returns None again.
LookupIsPure ==
  [][\A s \in Strings :
        Ustr_from_existing(s) =>
          /\ cache' = cache
          /\ mem' = mem
          /\ num_entries' = num_entries
          /\ pub_total_allocated' = pub_total_allocated
          /\ pub_total_capacity' = pub_total_capacity
          /\ ret'.ptr = NullPtr =>
               get_existing(cache'[whichbin(hashOf[s])], mem', s, hashOf[s]).kind = "none"]_vars

\* a lookup returned None on a cache that holds other strings
LookupIsPureWitness ==
  /\ ret.op = "from_existing" /\ ret.ptr = NullPtr
  /\ num_entries >= 2

\* C9 (iteration completeness): an iterator drained with no insertion since
\* its snapshot yielded exactly the strings interned since the cache was
\* last empty.
IterationComplete ==
  (iter.state \in {"done", "fault", "ub"} /\ ~iter.stale) =>
     /\ iter.state = "done"
     /\ Range(iter.yielded) = InternedStrings

\* C10 (data-race freedom): when every call of every thread has returned,
\* num_entries() is the number of distinct inputs of all the calls, every
\* returned handle points at a fully written entry holding its input, and
\* the handles returned for one string are equal.
Quiescent == \A t \in Threads : thr[t].pc = "idle"

ConcurrentInterns ==
  Quiescent =>
     /\ num_entries = Cardinality({h.s : h \in issued})
     /\ \A h \in issued :
           /\ Ustr_precomputed_hash(mem, h.ptr) = hashOf[h.s]
           /\ Ustr_len(mem, h.ptr) = Len(h.s)
           /\ Ustr_as_str(mem, h.ptr) = h.s
           /\ Load(mem, h.ptr + Len(h.s)) = 0
     /\ \A h1 \in issued : \A h2 \in issued : h1.s = h2.s => h1.ptr = h2.ptr
     /\ \A t \in Threads :
           thr[t].ptr # NullPtr => [s |-> thr[t].s, ptr |-> thr[t].ptr] \in issued

\* every thread has returned, all inputs are interned and two threads hold
\* the handle of the same string
ConcurrentInternsWitness ==
  /\ Quiescent
  /\ {h.s : h \in issued} = Strings
  /\ \E t1 \in Threads : \E t2 \in Threads :
        t1 # t2 /\ thr[t1].ptr # NullPtr /\ thr[t1].s = thr[t2].s /\ thr[t1].ptr = thr[t2].ptr

\* the handles in circulation: those intern returned and the one the last
\* call returned
Handles == {h.ptr : h \in issued} \cup (IF ret.ptr # NullPtr THEN {ret.ptr} ELSE {})

\* C13 (hash identity): precomputed_hash() of every handle is the hash
\* function applied to the bytes the handle reads, and two handles that read
\* equal bytes report the same hash.
HashIdentity ==
  /\ \A p \in Handles :
        /\ Ustr_as_str(mem, p) \in Strings
        /\ Ustr_precomputed_hash(mem, p) = hashOf[Ustr_as_str(mem, p)]
  /\ \A p1 \in Handles : \A p2 \in Handles :
        Ustr_as_str(mem, p1) = Ustr_as_str(mem, p2) =>
           Ustr_precomputed_hash(mem, p1) = Ustr_precomputed_hash(mem, p2)

\* a lookup returned the handle of a string routed to the last shard while
\* handles of strings of three different hashes are in circulation
HashIdentityWitness ==
  /\ ret.op = "from_existing" /\ ret.ptr # NullPtr
  /\ Ustr_precomputed_hash(mem, ret.ptr) >= 2 ^ TOP_SHIFT
  /\ Cardinality({Ustr_precomputed_hash(mem, p) : p \in Handles}) >= 3

\* the header addresses in the slots of a shard
EntriesOf(sc) == {sc.entries[i] : i \in 1 .. Len(sc.entries)} \ {NullPtr}

\* C14 (routing consistency): the hash h stored in an entry of shard i has
\* (h >> TOP_SHIFT) mod NUM_BINS = i, a lookup of a string is answered from
\* the shard its intern stored it in, and no byte sequence has entries in
\* two different shards.
RoutingConsistent ==
  /\ \A b \in Bins : \A e \in EntriesOf(cache[b]) :
        (Load(mem, e) \div (2 ^ TOP_SHIFT)) % NUM_BINS = b
  /\ \A h \in issued : \A b \in Bins :
        (h.ptr - SizeOfEntry) \in EntriesOf(cache[b]) =>
           /\ (hashOf[h.s] \div (2 ^ TOP_SHIFT)) % NUM_BINS = b
           /\ get_existing(cache[b], mem, h.s, hashOf[h.s]).ptr = h.ptr
  /\ (ret.op = "from_existing" /\ ret.ptr # NullPtr) =>
        [s |-> ret.s, ptr |-> ret.ptr] \in issued
  /\ \A b1 \in Bins : \A b2 \in Bins :
        \A e1 \in EntriesOf(cache[b1]) : \A e2 \in EntriesOf(cache[b2]) :
           (b1 # b2) =>
              Ustr_as_str(mem, e1 + SizeOfEntry) # Ustr_as_str(mem, e2 + SizeOfEntry)

\* both shards hold entries, one of them two with different low hash bits,
\* and a lookup was answered from another shard
RoutingConsistentWitness ==
  /\ ret.op = "from_existing" /\ ret.ptr # NullPtr
  /\ \E b \in Bins \ {0} : (ret.ptr - SizeOfEntry) \in EntriesOf(cache[b])
  /\ \E e1 \in EntriesOf(cache[0]) : \E e2 \in EntriesOf(cache[0]) :
        Load(mem, e1) # Load(mem, e2)

\* C15 (the hit path does not allocate): an intern of a string that has an
\* entry returns the pointer of that entry and leaves every shard (entry
\* count, slot table, arena cursor, arena list) and the heap as they were,
\* so num_entries(), total_allocated() and total_capacity() are unchanged.
HitPathFrame ==
  [][\A s \in Strings :
        (Ustr_from(s) /\ get_existing(ShardOf(s), mem, s, hashOf[s]).kind = "some") =>
          /\ ret'.op = "from" /\ ret'.hit
          /\ ret'.ptr = get_existing(ShardOf(s), mem, s, hashOf[s]).ptr
          /\ cache' = cache
          /\ mem' = mem
          /\ num_entries' = num_entries
          /\ pub_total_allocated' = pub_total_allocated
          /\ pub_total_capacity' = pub_total_capacity]_vars

\* an intern answered from an entry of a retired arena, found behind another
\* entry of the same first slot, while the current arena has room left
HitPathFrameWitness ==
  /\ ret.op = "from" /\ ret.hit
  /\ \E i \in 1 .. Len(ShardOf(ret.s).old_allocs) :
        /\ ret.ptr >= ShardOf(ret.s).old_allocs[i].ptr
        /\ ret.ptr < ShardOf(ret.s).old_allocs[i].end
  /\ ShardOf(ret.s).alloc.ptr - ShardOf(ret.s).alloc.start >= SizeOfEntry + Len(ret.s) + 1
  /\ ShardOf(ret.s).entries[AndMask(hashOf[ret.s], ShardOf(ret.s).mask) + 1]
        # ret.ptr - SizeOfEntry

\* the current and the retired arenas of every shard
AllArenas == UNION {ShardRegions(cache[b]) : b \in Bins}

\* the bytes handed out of the arenas in S, and the bytes obtained from the
\* system for them
RECURSIVE SumUsed(_)
SumUsed(S) ==
  IF S = {} THEN 0
  ELSE LET a == CHOOSE y \in S : TRUE IN (a.end - a.ptr) + SumUsed(S \ {a})

RECURSIVE SumReserved(_)
SumReserved(S) ==
  IF S = {} THEN 0
  ELSE LET a == CHOOSE y \in S : TRUE IN (a.end - a.start) + SumReserved(S \ {a})

\* C16 (statistics): total_allocated() is the sum over the current and the
\* retired arenas of end - cursor, total_capacity() is the sum of their
\* capacities (the bytes obtained from the system for each), and
\* total_allocated() <= total_capacity().
Statistics ==
  /\ pub_total_allocated = SumUsed(AllArenas)
  /\ pub_total_capacity = SumReserved(AllArenas)
  /\ pub_total_allocated <= pub_total_capacity
  /\ \A a \in AllArenas : a.start <= a.ptr /\ a.ptr <= a.end

\* a shard with a full retired arena, an empty retired arena and a partly
\* used current arena, another shard whose arena nothing was taken from
StatisticsWitness ==
  /\ \E b \in Bins :
        /\ \E i \in 1 .. Len(cache[b].old_allocs) :
              cache[b].old_allocs[i].ptr = cache[b].old_allocs[i].start
        /\ \E i \in 1 .. Len(cache[b].old_allocs) :
              cache[b].old_allocs[i].ptr = cache[b].old_allocs[i].end
        /\ cache[b].alloc.ptr > cache[b].alloc.start
        /\ cache[b].alloc.ptr < cache[b].alloc.end
  /\ \E b \in Bins : total_allocated(cache[b]) = 0
  /\ pub_total_allocated < pub_total_capacity

\* C17 (iteration yields each string once): an iterator drained with no
\* insertion since its snapshot ended normally, and the sequence it yielded
\* has no duplicates and as many elements as num_entries().
IterationExactlyOnce ==
  (iter.state \in {"done", "fault", "ub"} /\ ~iter.stale) =>
     /\ iter.state = "done"
     /\ Len(iter.yielded) = num_entries
     /\ Cardinality(Range(iter.yielded)) = Len(iter.yielded)

\* C18 (empty string): an intern of "" returns a handle with len() = 0 whose
\* character pointer points at a 0 byte; it adds one entry when "" has none
\* (from an empty cache num_entries() becomes 1), and when "" has an entry
\* it returns the handle issued before and adds nothing.
EmptyString ==
  [][(Ustr_from(StrE) /\ crashed' = "no") =>
        /\ ret'.op = "from" /\ ret'.s = StrE
        /\ Ustr_len(mem', ret'.ptr) = 0
        /\ Ustr_as_str(mem', ret'.ptr) = << >>
        /\ Load(mem', ret'.ptr) = 0
        /\ (num_entries = 0 => num_entries' = 1)
        /\ IF StrE \in InternedStrings
           THEN /\ [s |-> StrE, ptr |-> ret'.ptr] \in issued
                /\ num_entries' = num_entries
           ELSE /\ ret'.ptr \notin {h.ptr : h \in issued}
                /\ num_entries' = num_entries + 1]_vars

\* "" interned a second time, as the only entry of the cache, after a reset
EmptyStringWitness ==
  /\ ret.op = "from" /\ ret.s = StrE /\ ret.hit
  /\ num_entries = 1
  /\ \E b \in Bins : cache[b].num_entries = 0 /\ cache[b].mask > InitialMask

\* what intern(s) does on cache c with heap m, as a caller sees it
InternOutcome(c, m, s) ==
  LET r == insert(c[whichbin(hashOf[s])], m, Live(c), s, hashOf[s])
  IN  [status |-> r.status, hit |-> r.hit,
       count |-> r.sc.num_entries,
       str |-> IF r.status = "ok" THEN Ustr_as_str(r.mem, r.ptr) ELSE << >>]

\* the cache as the lazy_static initializer builds it
FreshCache == [b \in Bins |-> InitBins(NUM_BINS)[b + 1]]

\* C19 (reset): when _clear_cache() has returned, num_entries() and
\* total_allocated() are 0, every lookup finds nothing, every shard has no
\* retired arena and one unused arena of the initial capacity, no cell of an
\* entry is left on the heap, and an intern of any string does what it does
\* on a fresh cache.
ResetPostcondition ==
  [][clear_cache =>
        /\ num_entries' = 0
        /\ pub_total_allocated' = 0
        /\ pub_total_capacity' = INITIAL_ALLOC
        /\ \A s \in Strings :
              get_existing(cache'[whichbin(hashOf[s])], mem', s, hashOf[s]).kind = "none"
        /\ \A b \in Bins :
              /\ cache'[b].old_allocs = << >>
              /\ capacity(cache'[b].alloc) = INITIAL_ALLOC \div NUM_BINS
              /\ cache'[b].alloc.ptr = cache'[b].alloc.end
              /\ EntriesOf(cache'[b]) = {}
        /\ \A b1 \in Bins : \A b2 \in Bins :
              b1 # b2 => \/ cache'[b1].alloc.end <= cache'[b2].alloc.start
                         \/ cache'[b2].alloc.end <= cache'[b1].alloc.start
        /\ mem' = << >>
        /\ \A s \in Strings :
              InternOutcome(cache', mem', s) = InternOutcome(FreshCache, << >>, s)]_vars

\* the state a reset left behind: no entry, no result of a call, and a
\* shard whose table had grown twice before the reset
ResetPostconditionWitness ==
  /\ num_entries = 0
  /\ ret = NoRet /\ iter = NoIter
  /\ \E b \in Bins : cache[b].mask >= 4 * (InitialMask + 1) - 1

\* the thread is inside the critical section of a shard
InCritical(t) == thr[t].pc \in {"probe", "write", "unlock", "eprobe", "eunlock"}

\* C11 (per-shard linearizability): the calls take effect in the order in
\* which they release the mutex, a point between each call's start and its
\* return.  In that order every lookup returns what a sequential lookup
\* returns (the handle issued for its string, None when there is none) and
\* every intern what a sequential insert returns (the handle issued for its
\* string, a new one when there is none).  A thread is inside insert or
\* get_existing only while it holds the shard's mutex, and a shard changes
\* only in a step of the thread that holds its mutex.
Linearizable ==
  /\ [](\A t \in Threads : InCritical(t) => locks[whichbin(thr[t].hash)] = t)
  /\ [][/\ \A b \in Bins :
              cache'[b] # cache[b] =>
                 /\ locks[b] \in Threads
                 /\ InCritical(locks[b])
                 /\ whichbin(thr[locks[b]].hash) = b
                 /\ thr'[locks[b]] # thr[locks[b]]
        /\ \A t \in Threads :
              /\ existing_return(t) =>
                    IF thr[t].s \in {h.s : h \in issued}
                    THEN [s |-> thr[t].s, ptr |-> thr[t].ptr] \in issued
                    ELSE thr[t].ptr = NullPtr
              /\ from_return(t) =>
                    IF thr[t].s \in {h.s : h \in issued}
                    THEN [s |-> thr[t].s, ptr |-> thr[t].ptr] \in issued
                    ELSE /\ thr[t].ptr # NullPtr
                         /\ thr[t].ptr \notin {h.ptr : h \in issued}
                         /\ Ustr_as_str(mem, thr[t].ptr) = thr[t].s]_vars

\* a lookup holds the mutex of a shard and has found its string there, behind
\* the entry of another string, while another thread is blocked on the same
\* mutex with an intern of the same string
LinearizableWitness ==
  \E t1 \in Threads : \E t2 \in Threads :
     /\ thr[t1].pc = "eunlock" /\ thr[t1].ptr # NullPtr
     /\ thr[t2].pc = "lock"
     /\ thr[t2].s = thr[t1].s
     /\ \E h \in issued : h.s # thr[t1].s /\ whichbin(hashOf[h.s]) = whichbin(thr[t1].hash)

\* the strings that have an entry in some shard
EntryStrings ==
  {Ustr_as_str(mem, e + SizeOfEntry) : e \in UNION {EntriesOf(cache[b]) : b \in Bins}}

\* C12 (the iterator is a point-in-time view): with threads interning while
\* and after string_cache_iter() takes its snapshots, the walk never leaves
\* the entries (it does not fault and yields no string that is not the
\* content of an entry), and once drained it has yielded every string whose
\* intern had returned when the call began.
IteratorPointInTime ==
  /\ iter.state \notin {"fault", "ub"}
  /\ iter.state \in {"active", "done"} => Range(iter.yielded) \subseteq EntryStrings
  /\ iter.state = "done" => iter.before \subseteq Range(iter.yielded)

\* C20 (num_entries() under concurrent writers): with threads interning
\* during the call and nobody resetting, the value returned is at least the
\* number of entries the cache held when the call began and at most the
\* number it held when the call returned.
CountBracketed ==
  /\ ret.op = "returned" => ret.began <= ret.sum /\ ret.sum <= ret.ended
  /\ ret.op = "num_entries" => ret.sum <= num_entries

\* a call that returned less than the cache held at its return and more than
\* it held at its start: an entry was added to a shard already counted and
\* another to a shard not yet counted
CountBracketedWitness ==
  /\ ret.op = "returned"
  /\ ret.began < ret.sum
  /\ ret.sum < ret.ended

\* C21 (failure under the shard lock is fatal, not an unwind): no panic
\* starts in a thread that is inside the critical section of a shard; a
\* failure there ends the process by abort.
FatalUnderLock ==
  ~(/\ crashed = "panic"
    /\ \E t \in Threads : InCritical(t) /\ locks[whichbin(thr[t].hash)] = t)

\* a comes before b in the lexicographic order of byte strings
LexLess(a, b) ==
  \E k \in 1 .. Len(b) :
     /\ k <= Len(a) + 1
     /\ \A i \in 1 .. (k - 1) : a[i] = b[i]
     /\ (k = Len(a) + 1 \/ a[k] < b[k])

\* C22 (ordering of handles): cmp of two handles is the lexicographic order
\* of the strings they were issued for, whatever the order of interning and
\* the arenas of the entries, and it is Equal exactly when the handles are
\* equal.
OrderIsLexicographic ==
  \A h1 \in issued : \A h2 \in issued :
     /\ Ustr_cmp(mem, h1.ptr, h2.ptr) =
           (IF h1.s = h2.s THEN "Equal"
            ELSE IF LexLess(h1.s, h2.s) THEN "Less" ELSE "Greater")
     /\ (Ustr_cmp(mem, h1.ptr, h2.ptr) = "Equal") <=> (h1.ptr = h2.ptr)

\* all inputs are interned; of two pairs in lexicographic order one has its
\* pointers in that order and the other in the opposite order, and some
\* entry lies in a retired arena
OrderIsLexicographicWitness ==
  /\ {h.s : h \in issued} = Strings
  /\ \E h1 \in issued : \E h2 \in issued : LexLess(h1.s, h2.s) /\ h1.ptr < h2.ptr
  /\ \E h1 \in issued : \E h2 \in issued : LexLess(h1.s, h2.s) /\ h1.ptr > h2.ptr
  /\ \E b \in Bins : cache[b].old_allocs # << >>

\* the UstrMap that results from inserting the handles in S, each with the
\* string it was issued for as its value
RECURSIVE MapOfHandles(_)
MapOfHandles(S) ==
  IF S = {} THEN {}
  ELSE LET h == CHOOSE x \in S : TRUE
       IN  UstrMap_insert(MapOfHandles(S \ {h}), mem, h.ptr, h.s)

\* C23 (identity hashing): an IdentityHasher fed a handle finishes with the
\* handle's precomputed_hash(), and a UstrMap into which every issued handle
\* was inserted returns for each of them the value stored under it.
IdentityHashing ==
  /\ \A p \in Handles :
        IdentityHasher_finish(Ustr_hash(mem, p, IdentityHasher_default))
           = Ustr_precomputed_hash(mem, p)
  /\ \A h \in issued : UstrMap_get(MapOfHandles(issued), mem, h.ptr) = {h.s}

\* the map holds two keys of one hash and a key whose hash has routing bits
IdentityHashingWitness ==
  /\ \E h1 \in issued : \E h2 \in issued :
        h1.ptr # h2.ptr /\ UstrMap_hash(mem, h1.ptr) = UstrMap_hash(mem, h2.ptr)
  /\ \E h \in issued : UstrMap_hash(mem, h.ptr) >= 2 ^ TOP_SHIFT
  /\ \E h \in issued : UstrMap_hash(mem, h.ptr) % (2 ^ TOP_SHIFT) # 0

\* the strings that have an entry in cache c with heap m, and their number
\* as num_entries() reports it
StringsOf(c, m) ==
  {Ustr_as_str(m, e + SizeOfEntry) : e \in UNION {EntriesOf(c[b]) : b \in Bins}}

RECURSIVE CountOf(_, _)
CountOf(c, n) == IF n = 0 THEN 0 ELSE c[n - 1].num_entries + CountOf(c, n - 1)

\* C24 (serialization round trip): the cache is serialized with no insertion
\* during the walk; resetting the cache and deserializing the sequence gives
\* a cache with the same set of strings and the same num_entries().
SerializationRoundTrip ==
  (iter.state \in {"done", "fault", "ub"} /\ ~iter.stale) =>
     /\ iter.state = "done"
     /\ LET cleared == clear_from(cache, mem, 0)
            r == visit_seq(cleared.cache, cleared.mem, Bins_serialize, 1)
        IN  /\ r.status = "ok"
            /\ StringsOf(r.cache, r.mem) = StringsOf(cache, mem)
            /\ CountOf(r.cache, NUM_BINS) = num_entries

\* the number of non-null slots of a shard
RECURSIVE Occupied(_, _)
Occupied(sc, i) ==
  IF i = 0 THEN 0
  ELSE (IF sc.entries[i] # NullPtr THEN 1 ELSE 0) + Occupied(sc, i - 1)

\* C25 (load factor): in every shard, whenever no insert is under way, twice
\* the number of occupied slots is at most the number of slots (mask + 1),
\* so the table has a null slot.
LoadFactor ==
  \A b \in Bins :
     /\ Len(cache[b].entries) = cache[b].mask + 1
     /\ Occupied(cache[b], Len(cache[b].entries)) * 2 <= cache[b].mask + 1
     /\ cache[b].num_entries * 2 <= cache[b].mask + 1
     /\ \E i \in 1 .. Len(cache[b].entries) : cache[b].entries[i] = NullPtr

\* a shard holds three entries in a table that grew twice, and an intern
\* that added an entry without growth has just returned
LoadFactorWitness ==
  /\ \E b \in Bins : /\ Occupied(cache[b], Len(cache[b].entries)) = 3
                     /\ cache[b].mask = 4 * (InitialMask + 1) - 1
  /\ ret.op = "from" /\ ~ret.hit
  /\ \E r \in interned : r.s = ret.s /\ r.mask = ShardOf(ret.s).mask
                         /\ ShardOf(ret.s).num_entries = 3

\* C26 (the arena abort path is unreachable from insert): whatever the
\* lengths of the strings inserted, allocate never finds the rounded-down
\* cursor below the base of the arena (it neither aborts nor fails its
\* subtraction), and every cursor stays within its arena and aligned.
ArenaAbortUnreachable ==
  /\ crashed = "no"
  /\ \A a \in ShardRegions(cache[0]) :
        /\ a.start <= a.ptr /\ a.ptr <= a.end
        /\ a.start % AlignOfEntry = 0
        /\ (a.ptr = a.end \/ a.ptr % AlignOfEntry = 0)

\* an arena whose capacity is no multiple of the alignment was taken into
\* use, received more than one entry and is used up to fewer bytes than the
\* alignment above its base, where only the rounding keeps a request out
ArenaAbortUnreachableWitness ==
  LET a == cache[0].alloc
  IN  /\ capacity(a) % AlignOfEntry # 0
      /\ a.ptr > a.start
      /\ a.ptr - a.start <= SizeOfEntry + AlignOfEntry
      /\ allocated(a) > 2 * (SizeOfEntry + 1)
      /\ Len(cache[0].old_allocs) = MaxRetired

\* the slots of shard sc that hold the header address e
SlotsOf(sc, e) == {i \in 1 .. Len(sc.entries) : sc.entries[i] = e}

\* C27 (hash collisions): two different strings with the same hash, of equal
\* or of different length, have two entries in two slots of their shard, and
\* an intern or a lookup of either finds that string's own entry.
CollisionsHandled ==
  /\ \A h1 \in issued : \A h2 \in issued :
        (h1.s # h2.s /\ hashOf[h1.s] = hashOf[h2.s]) =>
           LET sc == ShardOf(h1.s)
           IN  /\ h1.ptr # h2.ptr
               /\ Cardinality(SlotsOf(sc, h1.ptr - SizeOfEntry)) = 1
               /\ Cardinality(SlotsOf(sc, h2.ptr - SizeOfEntry)) = 1
               /\ SlotsOf(sc, h1.ptr - SizeOfEntry) # SlotsOf(sc, h2.ptr - SizeOfEntry)
               /\ Ustr_as_str(mem, h1.ptr) = h1.s
               /\ get_existing(sc, mem, h1.s, hashOf[h1.s]) = [kind |-> "some", ptr |-> h1.ptr]
               /\ insert(sc, mem, Live(cache), h1.s, hashOf[h1.s]).ptr = h1.ptr
  /\ (ret.op \in {"from", "from_existing"} /\ ret.ptr # NullPtr) =>
        Ustr_as_str(mem, ret.ptr) = ret.s

\* three strings of one hash are interned, two of the same length and one
\* of another, and a lookup has just found the latter, whose entry lies
\* below the other two
CollisionsHandledWitness ==
  /\ \E h1 \in issued : \E h2 \in issued : \E h3 \in issued :
        /\ h1.s # h2.s /\ Len(h1.s) = Len(h2.s) /\ Len(h3.s) # Len(h1.s)
        /\ hashOf[h1.s] = hashOf[h2.s] /\ hashOf[h2.s] = hashOf[h3.s]
        /\ ret.s = h3.s /\ ret.ptr = h3.ptr
        /\ h3.ptr < h1.ptr /\ h3.ptr < h2.ptr
  /\ ret.op = "from_existing"

\* the strings routed to shard b
RoutedTo(b) == {s \in Strings : whichbin(hashOf[s]) = b}

\* C28 (grow rebuilds only the index): grow replaces the slot array by one
\* of twice the size that holds the same non-null pointers, each once,
\* leaves the entry count, the arenas and the heap alone, and every string a
\* lookup found before is found after it at the same character pointer.
\* First for grow applied to every shard as it stands, then for the growth
\* at the end of an insert.
GrowRebuildsIndex ==
  /\ [](\A b \in Bins :
          LET sc == cache[b]
              g == grow(sc, mem)
          IN  /\ Len(g.entries) = 2 * Len(sc.entries)
              /\ g.mask + 1 = Len(g.entries)
              /\ EntriesOf(g) = EntriesOf(sc)
              /\ Occupied(g, Len(g.entries)) = Occupied(sc, Len(sc.entries))
              /\ g.num_entries = sc.num_entries
              /\ g.alloc = sc.alloc /\ g.old_allocs = sc.old_allocs
              /\ \A s \in RoutedTo(b) :
                    get_existing(g, mem, s, hashOf[s]) = get_existing(sc, mem, s, hashOf[s]))
  /\ [][\A b \in Bins :
          cache'[b].mask # cache[b].mask =>
             /\ Len(cache'[b].entries) = 2 * Len(cache[b].entries)
             /\ cache'[b].mask + 1 = Len(cache'[b].entries)
             /\ EntriesOf(cache'[b]) = EntriesOf(cache[b]) \cup {ret'.ptr - SizeOfEntry}
             /\ Occupied(cache'[b], Len(cache'[b].entries))
                   = Occupied(cache[b], Len(cache[b].entries)) + 1
             /\ cache'[b].num_entries = cache[b].num_entries + 1
             /\ \A a \in DOMAIN mem : Load(mem', a) = Load(mem, a)
             /\ \A s \in RoutedTo(b) :
                   get_existing(cache[b], mem, s, hashOf[s]).kind = "some" =>
                      get_existing(cache'[b], mem', s, hashOf[s])
                         = get_existing(cache[b], mem, s, hashOf[s])]_vars

\* an insert has just grown the table of its shard, and the growth put the
\* pointer of the new entry into a slot of the upper half, which the old
\* table did not have
GrowRebuildsIndexWitness ==
  /\ ret.op = "from" /\ ~ret.hit
  /\ LET sc == ShardOf(ret.s)
     IN  /\ sc.num_entries * 2 > (sc.mask - 1) \div 2
         /\ \E i \in 1 .. Len(sc.entries) :
               /\ i > (sc.mask + 1) \div 2
               /\ sc.entries[i] = ret.ptr - SizeOfEntry

\* the non-null slots of the whole cache: [bin, slot, entry]
AllSlots ==
  UNION {{[bin |-> b, slot |-> i, entry |-> cache[b].entries[i]] :
            i \in {j \in 1 .. Len(cache[b].entries) : cache[b].entries[j] # NullPtr}} :
         b \in Bins}

\* the (hash, len, bytes) of the entry whose header is at e
EntryKey(e) ==
  << Load(mem, e), Load(mem, e + SizeOfHash), Ustr_as_str(mem, e + SizeOfEntry) >>

\* C29 (no entry is duplicated): over all shards and slots, two different
\* non-null slots hold different pointers and point at entries that differ
\* in hash, len or bytes.
NoDuplicateEntries ==
  \A x \in AllSlots : \A y \in AllSlots :
     x # y => /\ x.entry # y.entry
              /\ EntryKey(x.entry) # EntryKey(y.entry)

\* every input has an entry, two of them differ in their bytes only, and an
\* intern of a string that has an entry has just returned, after a growth
\* and a retirement in its shard
NoDuplicateEntriesWitness ==
  /\ Cardinality(AllSlots) = Cardinality(Strings)
  /\ \E x \in AllSlots : \E y \in AllSlots :
        /\ x # y
        /\ EntryKey(x.entry)[1] = EntryKey(y.entry)[1]
        /\ EntryKey(x.entry)[2] = EntryKey(y.entry)[2]
  /\ ret.op = "from" /\ ret.hit
  /\ ShardOf(ret.s).old_allocs # << >>

\* the entry whose header is at e is fully written: hash, len, len bytes
\* and the NUL are initialised cells, the bytes are those of an input and
\* the hash is the hash of these bytes
FullyWritten(e) ==
  LET n == Load(mem, e + SizeOfHash)
  IN  /\ n # Uninit
      /\ Load(mem, e) # Uninit
      /\ \A a \in (e + SizeOfEntry) .. (e + SizeOfEntry + n) : Load(mem, a) # Uninit
      /\ Load(mem, e + SizeOfEntry + n) = 0
      /\ EntryChars(mem, e, n) \in Strings
      /\ Load(mem, e) = hashOf[EntryChars(mem, e, n)]

\* the entry at e, with its bytes and NUL, lies in the handed-out range
\* [ptr, end) of arena a
InHandedOut(e, a) ==
  /\ a.ptr <= e
  /\ e + SizeOfEntry + Load(mem, e + SizeOfHash) + 1 <= a.end

\* C30 (slot table well-formedness): in every shard whose mutex is free,
\* the entry counter equals the number of non-null slots, and every non-null
\* slot points at the header of a fully written entry (hash, len, bytes,
\* NUL) inside the handed-out range of the shard's current arena or of one
\* of its retired arenas.
SlotTableWellFormed ==
  \A b \in Bins :
     locks[b] = 0 =>
        /\ cache[b].num_entries = Occupied(cache[b], Len(cache[b].entries))
        /\ \A e \in EntriesOf(cache[b]) :
              /\ FullyWritten(e)
              /\ \E a \in ShardRegions(cache[b]) : InHandedOut(e, a)

\* a shard whose mutex is free has an entry in a retired arena and one in
\* its current arena, in a grown table, while a thread is inside insert on
\* another shard
SlotTableWellFormedWitness ==
  \E b \in Bins :
     /\ locks[b] = 0
     /\ cache[b].mask > InitialMask
     /\ \E e \in EntriesOf(cache[b]) : InHandedOut(e, cache[b].alloc)
     /\ \E e \in EntriesOf(cache[b]) :
           \E i \in 1 .. Len(cache[b].old_allocs) : InHandedOut(e, cache[b].old_allocs[i])
     /\ \E t \in Threads : thr[t].pc = "unlock" /\ locks[whichbin(thr[t].hash)] = t

ArenasNeverReleased ==
  [][\/ clear_cache /\ mem' = << >>
     \/ /\ DOMAIN mem \subseteq DOMAIN mem'
        /\ \A b \in Bins :
              LET old == cache[b].old_allocs
                  new == cache'[b].old_allocs
              IN  /\ Len(new) \in {Len(old), Len(old) + 1}
                  /\ SubSeq(new, 1, Len(old)) = old
                  /\ IF Len(new) = Len(old)
                     THEN /\ cache'[b].alloc.start = cache[b].alloc.start
                          /\ cache'[b].alloc.end = cache[b].alloc.end
                          /\ cache'[b].alloc.size = cache[b].alloc.size
                     ELSE new[Len(new)] = cache[b].alloc]_vars

\* a lookup has just been answered from the first of two retired arenas of
\* its shard, with the handle the intern of its string had issued
ArenasNeverReleasedWitness ==
  /\ ret.op = "from_existing" /\ ret.hit
  /\ LET sc == ShardOf(ret.s)
     IN  /\ Len(sc.old_allocs) = 2
         /\ ret.ptr - SizeOfEntry >= sc.old_allocs[1].ptr
         /\ ret.ptr < sc.old_allocs[1].end
         /\ (ret.ptr - SizeOfEntry) \in DOMAIN mem
  /\ [s |-> ret.s, ptr |-> ret.ptr] \in issued

\* a table of mask + 1 slots of which slot j alone is null
OneNull(mask, j) == [i \in 1 .. (mask + 1) |-> IF i = j + 1 THEN NullPtr ELSE AlignOfEntry]

\* C33 (triangular probing covers the table): for every power-of-two slot
\* count n and every start, the k-th slot probed is start + k(k+1)/2 mod n,
\* the slots probed in the first n steps are pairwise different and are all
\* n slots, and the probe of grow finds the one null slot of a table
\* wherever it is.
TriangularProbing ==
  ret.op = "probe" =>
     LET n == ret.mask + 1
         start == probe_start(ret.hash, ret.mask)
     IN  /\ Len(ret.visited) = ret.dist + 1
         /\ ret.dist <= ret.mask
         /\ \A i \in 1 .. Len(ret.visited) :
               ret.visited[i] = (start + ((i - 1) * i) \div 2) % n
         /\ \A i \in 1 .. Len(ret.visited) : \A j \in 1 .. Len(ret.visited) :
               i # j => ret.visited[i] # ret.visited[j]
         /\ ret.dist = ret.mask => Range(ret.visited) = 0 .. ret.mask
         /\ \A j \in 0 .. ret.mask : grow_probe(OneNull(ret.mask, j), ret.mask, start, 0) = j

\* the walk of the largest table from a start other than slot 0 has made
\* its last step
TriangularProbingWitness ==
  /\ ret.op = "probe"
  /\ ret.mask = 2 ^ MaxProbeShift - 1
  /\ ret.dist = ret.mask
  /\ ret.visited[1] # 0
  /\ ret.hash > ret.mask

\* the strings asked for: the inputs and a string that is never interned
QueryStrings == Strings \cup {<< 99 >>}
\* the hashes asked with in shard b: every first slot of the largest table
QueryHashes(b) == {MkHash(b, low) : low \in 0 .. (8 * (INITIAL_CAPACITY \div NUM_BINS) - 1)}

\* C34 (probe termination): in every reachable shard state and for every
\* query string and hash, the probe loops of lookup and insert end at a null
\* slot or at a matching slot before the probe distance exceeds the mask,
\* the probe of grow finds a null slot for every pointer it copies, and no
\* intern or lookup call fails to return.
ProbeTermination ==
  /\ crashed # "hang"
  /\ \A b \in Bins : \A s \in QueryStrings : \A h \in QueryHashes(b) :
        /\ get_existing(cache[b], mem, s, h).kind \in {"none", "some"}
        /\ insert_loop(cache[b], mem, s, h, AndMask(h, cache[b].mask), 0).kind
              \in {"found", "empty"}
  /\ \A b \in Bins :
        LET g == grow(cache[b], mem)
        IN  Occupied(g, Len(g.entries)) = Occupied(cache[b], Len(cache[b].entries))

\* a lookup has just returned the entry it found at its fourth probe, behind
\* three other entries
ProbeTerminationWitness ==
  /\ ret.op = "from_existing" /\ ret.hit
  /\ LET sc == ShardOf(ret.s)
         start == AndMask(hashOf[ret.s], sc.mask)
     IN  /\ sc.mask >= 7
         /\ sc.entries[AndMask(start + 6, sc.mask) + 1] = ret.ptr - SizeOfEntry
         /\ \A k \in {0, 1, 3} :
               /\ sc.entries[AndMask(start + k, sc.mask) + 1] # NullPtr
               /\ sc.entries[AndMask(start + k, sc.mask) + 1] # ret.ptr - SizeOfEntry

\* C35 (bump allocation): a successful allocate(n) sets the cursor to
\* (cursor - n) rounded down to the alignment and returns it; the address is
\* a multiple of the alignment and at least base, the cursor has not
\* increased, allocated() is end - cursor, and the ranges [p, p + n) handed
\* out of the arena are pairwise disjoint and lie inside [base, end).
BumpAllocation ==
  LET a == cache[0].alloc
  IN  /\ allocated(a) = a.end - a.ptr
      /\ a.start <= a.ptr /\ a.ptr <= a.end
      /\ a.end = a.start + capacity(a)
      /\ ret.op = "allocate" =>
            /\ ret.ptr = a.ptr
            /\ a.ptr = RoundDown(ret.before - ret.n, a.align)
            /\ a.ptr % a.align = 0
            /\ a.ptr >= a.start
            /\ a.ptr <= ret.before
      /\ \A x \in ret.handed : a.start <= x[1] /\ x[1] + x[2] <= a.end
      /\ \A x \in ret.handed : \A y \in ret.handed :
            x # y => x[1] + x[2] <= y[1] \/ y[1] + y[2] <= x[1]

\* three ranges have been handed out of an arena whose end is not a
\* multiple of the alignment, the last of a size that is not one either,
\* and the arena is used up to its base
BumpAllocationWitness ==
  /\ ret.op = "allocate"
  /\ Cardinality({x \in ret.handed : x[2] > 0}) = 3
  /\ cache[0].alloc.end % AlignOfEntry # 0
  /\ ret.n % AlignOfEntry # 0
  /\ cache[0].alloc.ptr = cache[0].alloc.start

\* the entries of shard sc whose header is in the handed-out range of arena a
HeadersIn(sc, a) == {e \in EntriesOf(sc) : a.ptr <= e /\ e < a.end}

\* the addresses the advance of the iterator visits from p on while it is on
\* a header of H, and the first address that is not one
RECURSIVE WalkHeaders(_, _)
WalkHeaders(p, H) ==
  IF p \in H THEN << p >> \o WalkHeaders(next_entry(mem, p), H) ELSE << >>

RECURSIVE WalkStop(_, _)
WalkStop(p, H) == IF p \in H THEN WalkStop(next_entry(mem, p), H) ELSE p

\* C36 (the iterator's advance matches the allocator): in every arena of
\* every shard, the walk from the cursor by header size + round_up(len + 1,
\* alignment) visits the headers of the entries allocated in the arena in
\* ascending address order (the reverse of their allocation), each once and
\* no other address, and the first address that is not a header is at or
\* beyond the end of the arena.
AdvanceMatchesAllocator ==
  \A b \in Bins : \A a \in ShardRegions(cache[b]) :
     LET H == HeadersIn(cache[b], a)
         w == WalkHeaders(a.ptr, H)
     IN  /\ Range(w) = H
         /\ Len(w) = Cardinality(H)
         /\ \A i \in 1 .. (Len(w) - 1) : w[i] < w[i + 1]
         /\ WalkStop(a.ptr, H) >= a.end

\* the cells of the heap that lie in the arenas of shard b
MemOf(b) ==
  [a \in {x \in DOMAIN mem : \E r \in ShardRegions(cache[b]) : r.start <= x /\ x < r.end}
     |-> mem[a]]

\* C37 (shard independence): a call routed to shard A can take the mutex of
\* A exactly when no thread holds it, whatever other mutexes are held, and
\* its probe and its return can be taken once reached; what its probe and
\* its write do is determined by A's table and the cells of A's arenas; and
\* its steps change no other shard, no other mutex and no cell outside A's
\* arenas.
ShardIndependence ==
  /\ [](crashed = "no" =>
         \A t \in Threads :
            LET A == whichbin(thr[t].hash)
                sc == cache[A]
            IN  /\ thr[t].pc = "lock" => ((ENABLED from_lock(t)) <=> locks[A] = 0)
                /\ thr[t].pc = "elock" => ((ENABLED existing_lock(t)) <=> locks[A] = 0)
                /\ thr[t].pc = "probe" =>
                      /\ ENABLED from_probe(t)
                      /\ insert_loop(sc, MemOf(A), thr[t].s, thr[t].hash,
                                     AndMask(thr[t].hash, sc.mask), 0)
                           = insert_loop(sc, mem, thr[t].s, thr[t].hash,
                                         AndMask(thr[t].hash, sc.mask), 0)
                /\ thr[t].pc = "eprobe" =>
                      /\ ENABLED existing_probe(t)
                      /\ get_existing(sc, MemOf(A), thr[t].s, thr[t].hash)
                           = get_existing(sc, mem, thr[t].s, thr[t].hash)
                /\ thr[t].pc = "write" =>
                      insert_new(sc, MemOf(A), Live(cache), thr[t].s, thr[t].hash,
                                 thr[t].pos).sc
                        = insert_new(sc, mem, Live(cache), thr[t].s, thr[t].hash,
                                     thr[t].pos).sc
                /\ thr[t].pc = "unlock" => ENABLED from_return(t)
                /\ thr[t].pc = "eunlock" => ENABLED existing_return(t))
  /\ [][\A t \in Threads :
          thr'[t] # thr[t] =>
             LET A == whichbin(thr[t].hash)
             IN  IF thr[t].pc = "idle"
                 THEN cache' = cache /\ locks' = locks /\ mem' = mem
                 ELSE /\ \A b \in Bins \ {A} : cache'[b] = cache[b] /\ locks'[b] = locks[b]
                      /\ \A a \in DOMAIN mem' :
                            Load(mem', a) # Load(mem, a) =>
                               \E r \in ShardRegions(cache'[A]) : r.start <= a /\ a < r.end]_vars

\* a thread has written its entry into one shard and still holds its mutex
\* while another thread, holding the mutex of another shard, is about to
\* write there, and that shard has an entry already
ShardIndependenceWitness ==
  \E t1 \in Threads : \E t2 \in Threads :
     /\ thr[t1].pc = "write" /\ thr[t2].pc = "unlock"
     /\ whichbin(thr[t1].hash) # whichbin(thr[t2].hash)
     /\ locks[whichbin(thr[t1].hash)] = t1
     /\ locks[whichbin(thr[t2].hash)] = t2
     /\ (thr[t2].ptr - SizeOfEntry) \in EntriesOf(cache[whichbin(thr[t2].hash)])
     /\ cache[whichbin(thr[t1].hash)].num_entries > 0
     /\ thr[t2].s \notin {h.s : h \in issued}

\* bit i of the hash
Bit(h, i) == (h \div (2 ^ i)) % 2

\* the number whose bits are the top n bits of the hash
RECURSIVE TopBits(_, _)
TopBits(h, n) ==
  IF n = 0 THEN 0 ELSE 2 * TopBits(h, n - 1) + Bit(h, HashBits - n)

IterDeref ==
  LET at_end == iter.current_ptr >= iter.allocs[iter.current_alloc + 1][2]
  IN  IF at_end THEN iter.allocs[iter.current_alloc + 2][1] ELSE iter.current_ptr

\* C39 (the iterator reads entries inside the snapshotted ranges only): every
\* address at which a call of next() reads an entry header lies in
\* [cursor, end) of one of the arenas of the snapshot, also when a shard whose
\* initial arena was retired empty follows a non-empty arena in the snapshot.
IteratorInBounds ==
  [][(StringCacheIterator_next /\ iter'.state # "done") =>
        \E i \in 1 .. Len(iter.allocs) :
           /\ iter.allocs[i][1] <= IterDeref
           /\ IterDeref < iter.allocs[i][2]]_vars

\* C40 (iterating an empty cache): when no string is interned, on a fresh
\* cache or directly after the reset, string_cache_iter() returns an
\* iterator without failing, and the first next() on it returns None with
\* nothing yielded.
EmptyIteration ==
  [][/\ (string_cache_iter /\ num_entries = 0) =>
           /\ iter'.state # "panicked"
           /\ iter'.yielded = << >>
     /\ (StringCacheIterator_next /\ num_entries = 0) =>
           /\ iter'.state = "done"
           /\ iter'.yielded = << >>]_vars

====
